---- MODULE Spec2Model ----
(***************************************************************************)
(* Model of the Nameless EFB X-Plane plugin: the packet codec of           *)
(* efb-protocol, the EfbPlugin session of xplane-efb-plugin (watchdog,     *)
(* sequence counter, peer address), the command-server threads with their  *)
(* mpsc channels, and the XPLM entry points that drive them.               *)
(*                                                                         *)
(* TLC's integers are 32-bit signed, so a u32 is kept as a pair            *)
(* <<hi, lo>> of its two 16-bit halves; all arithmetic on it is done       *)
(* modulo 2^32 on the halves.  Time is counted in whole seconds.           *)
(***************************************************************************)
EXTENDS Integers, Sequences, FiniteSets, TLC

(***************************************************************************)
(* Bounds of the model.                                                    *)
(***************************************************************************)
\* Largest age of the last Ack that is told apart, in seconds: beyond the
\* watchdog timeout all ages behave alike.
MaxElapsed == 6
\* Number of datagrams the network delivers in one behaviour.
MaxDatagrams == 2
\* Number of frames the ticks of one behaviour transmit.
MaxFrames == 2
\* Number of XPluginEnable calls (command-server threads) in one behaviour.
MaxEnables == 2
\* Number of alterations made to one encoded buffer before it is decoded.
MaxEdits == 2

(***************************************************************************)
(* efb-protocol: constants and fixed-width little-endian helpers.          *)
(***************************************************************************)
U16Mod == 65536
ByteMod == 256

\* MAGIC = 0xEFB1_2345 as <<hi, lo>>.
MAGIC == <<61361, 9029>>
PROTOCOL_VERSION == 1
HEADER_LEN == 17
MAX_PAYLOAD_LEN == 65535

\* PacketType discriminants.
PT_SimData == 1
PT_CommandJson == 2
PT_Ack == 3
PT_Reload == 4

\* Fault seeded for DispatchTotal: every type byte is taken for a packet type.
from_u8_open(v) == v

\* PacketType::from_u8: the packet type of a byte, or 0 for None.
from_u8(v) == IF v \in {PT_SimData, PT_CommandJson, PT_Ack, PT_Reload} THEN v ELSE 0

\* Exclusive or of two naturals, bit by bit.
RECURSIVE XorBits(_, _)
XorBits(a, b) ==
    IF a = 0 THEN b
    ELSE IF b = 0 THEN a
    ELSE (((a % 2) + (b % 2)) % 2) + 2 * XorBits(a \div 2, b \div 2)

\* Exclusive or of two values below 2^4, tabulated.
XorNibble == [a \in 0..15 |-> [b \in 0..15 |-> XorBits(a, b)]]

\* Exclusive or of two values below 2^16, four bits at a time.
Xor16(a, b) ==
    XorNibble[a % 16][b % 16]
    + 16 * XorNibble[(a \div 16) % 16][(b \div 16) % 16]
    + 256 * XorNibble[(a \div 256) % 16][(b \div 256) % 16]
    + 4096 * XorNibble[a \div 4096][b \div 4096]

\* u32 operations on <<hi, lo>>.
Xor32(x, y) == <<Xor16(x[1], y[1]), Xor16(x[2], y[2])>>
Shr1(x) == <<x[1] \div 2, (x[2] \div 2) + ((x[1] % 2) * 32768)>>
Not32(x) == <<65535 - x[1], 65535 - x[2]>>
\* Fault seeded for SequenceIncrements: the counter stops at 2^32 - 1.
WrapSuccSaturating(x) ==
    IF x = <<65535, 65535>> THEN x
    ELSE IF x[2] + 1 < U16Mod THEN <<x[1], x[2] + 1>>
    ELSE <<x[1] + 1, 0>>

\* u32::wrapping_add(x, 1), as AtomicU32::fetch_add leaves the counter.
WrapSucc(x) ==
    IF x[2] + 1 < U16Mod THEN <<x[1], x[2] + 1>>
    ELSE <<(x[1] + 1) % U16Mod, 0>>

\* Reflected CRC-32 polynomial 0xEDB8_8320 and the seed 0xFFFF_FFFF.
CRC_POLY == <<60856, 33568>>
CRC_INIT == <<65535, 65535>>

\* One of the eight shift steps of crc32's inner loop.
crc_shift(crc) ==
    IF crc[2] % 2 = 1 THEN Xor32(Shr1(crc), CRC_POLY) ELSE Shr1(crc)

\* The inner loop "for _ in 0..8" of crc32.
crc_bits(crc) ==
    crc_shift(crc_shift(crc_shift(crc_shift(
        crc_shift(crc_shift(crc_shift(crc_shift(crc))))))))

\* The outer loop of crc32 over the bytes lo..hi, in order: the first half
\* of the range, then the second half from the running value the first
\* left, which is computed before the second half is taken up.
RECURSIVE crc_bytes(_, _, _, _)
crc_bytes(crc, data, lo, hi) ==
    IF lo > hi THEN crc
    ELSE IF lo = hi THEN crc_bits(Xor32(crc, <<0, data[lo]>>))
    ELSE LET mid == (lo + hi) \div 2
             c == crc_bytes(crc, data, lo, mid)
         IN  IF c[1] >= 0 THEN crc_bytes(c, data, mid + 1, hi) ELSE c

\* A checksum that depends on the length of the data only.
crc32_of_length(data) ==
    Not32(crc_bytes(CRC_INIT, <<Len(data) % ByteMod>>, 1, 1))

\* A CRC whose register is returned as it is, without the final complement.
crc32_no_complement(data) == crc_bytes(CRC_INIT, data, 1, Len(data))

\* crc32(data): CRC-32 of a byte sequence.
crc32(data) == Not32(crc_bytes(CRC_INIT, data, 1, Len(data)))

\* u16/u32::to_le_bytes.
u16_le(v) == <<v % ByteMod, v \div ByteMod>>
u32_le(x) == u16_le(x[2]) \o u16_le(x[1])

\* read_u16 / read_u32 at a 0-based offset of a buffer (a 1-based sequence).
read_u16(buf, off) == buf[off + 1] + ByteMod * buf[off + 2]
read_u32(buf, off) == <<read_u16(buf, off + 2), read_u16(buf, off)>>

\* A frame builder that writes the sequence number after the checksum.
build_packet_sequence_last(seq, ptype, payload) ==
    u32_le(MAGIC) \o u16_le(PROTOCOL_VERSION) \o <<ptype>>
        \o u16_le((Len(payload)) % U16Mod) \o u32_le(crc32(payload)) \o u32_le(seq)
        \o payload

\* build_packet(seq, ptype, payload): header followed by the payload.
\* payload.len() as u16 truncates the length to 16 bits.
build_packet(seq, ptype, payload) ==
    u32_le(MAGIC) \o u16_le(PROTOCOL_VERSION) \o <<ptype>>
        \o u16_le((Len(payload)) % U16Mod) \o u32_le(seq) \o u32_le(crc32(payload))
        \o payload

Err(e) == [ok |-> FALSE, err |-> e]

\* The body of a successful decode_packet.
Decoded(buf) ==
    [ok |-> TRUE,
     header |-> [magic |-> read_u32(buf, 0), version |-> read_u16(buf, 4),
                 packet_type |-> buf[7], payload_len |-> read_u16(buf, 7),
                 sequence |-> read_u32(buf, 9), checksum |-> read_u32(buf, 13)],
     packet_type |-> from_u8(buf[7]),
     payload |-> SubSeq(buf, HEADER_LEN + 1, HEADER_LEN + read_u16(buf, 7))]

\* A decoder that looks at the version before the magic.
decode_packet_version_first(buf) ==
    IF Len(buf) < HEADER_LEN THEN Err("TooShort")
    ELSE IF read_u16(buf, 4) # PROTOCOL_VERSION THEN Err("BadVersion")
    ELSE IF read_u32(buf, 0) # MAGIC THEN Err("BadMagic")
    ELSE IF from_u8(buf[7]) = 0
        THEN [ok |-> FALSE, err |-> "UnknownPacketType", byte |-> buf[7]]
    ELSE IF read_u16(buf, 7) > MAX_PAYLOAD_LEN THEN Err("PayloadTooLarge")
    ELSE IF Len(buf) < HEADER_LEN + read_u16(buf, 7) THEN Err("TruncatedPayload")
    ELSE IF crc32(Decoded(buf).payload) # read_u32(buf, 13) THEN Err("BadChecksum")
    ELSE Decoded(buf)

\* A decoder whose checksum covers the sequence field as well.
decode_packet_covers_sequence(buf) ==
    IF Len(buf) < HEADER_LEN THEN Err("TooShort")
    ELSE IF read_u32(buf, 0) # MAGIC THEN Err("BadMagic")
    ELSE IF read_u16(buf, 4) # PROTOCOL_VERSION THEN Err("BadVersion")
    ELSE IF from_u8(buf[7]) = 0
        THEN [ok |-> FALSE, err |-> "UnknownPacketType", byte |-> buf[7]]
    ELSE IF read_u16(buf, 7) > MAX_PAYLOAD_LEN THEN Err("PayloadTooLarge")
    ELSE IF Len(buf) < HEADER_LEN + read_u16(buf, 7) THEN Err("TruncatedPayload")
    ELSE IF crc32(SubSeq(buf, 10, 13) \o Decoded(buf).payload) # read_u32(buf, 13)
        THEN Err("BadChecksum")
    ELSE Decoded(buf)

\* A decoder whose length limit is exclusive.
decode_packet_limit_exclusive(buf) ==
    IF Len(buf) < HEADER_LEN THEN Err("TooShort")
    ELSE IF read_u32(buf, 0) # MAGIC THEN Err("BadMagic")
    ELSE IF read_u16(buf, 4) # PROTOCOL_VERSION THEN Err("BadVersion")
    ELSE IF from_u8(buf[7]) = 0
        THEN [ok |-> FALSE, err |-> "UnknownPacketType", byte |-> buf[7]]
    ELSE IF read_u16(buf, 7) >= MAX_PAYLOAD_LEN THEN Err("PayloadTooLarge")
    ELSE IF Len(buf) < HEADER_LEN + read_u16(buf, 7) THEN Err("TruncatedPayload")
    ELSE IF crc32(Decoded(buf).payload) # read_u32(buf, 13) THEN Err("BadChecksum")
    ELSE Decoded(buf)

\* A decoder whose checksum covers every byte after the header.
decode_packet_covers_tail(buf) ==
    IF Len(buf) < HEADER_LEN THEN Err("TooShort")
    ELSE IF read_u32(buf, 0) # MAGIC THEN Err("BadMagic")
    ELSE IF read_u16(buf, 4) # PROTOCOL_VERSION THEN Err("BadVersion")
    ELSE IF from_u8(buf[7]) = 0
        THEN [ok |-> FALSE, err |-> "UnknownPacketType", byte |-> buf[7]]
    ELSE IF read_u16(buf, 7) > MAX_PAYLOAD_LEN THEN Err("PayloadTooLarge")
    ELSE IF Len(buf) < HEADER_LEN + read_u16(buf, 7) THEN Err("TruncatedPayload")
    ELSE IF crc32(SubSeq(buf, HEADER_LEN + 1, Len(buf))) # read_u32(buf, 13)
        THEN Err("BadChecksum")
    ELSE Decoded(buf)

\* decode_packet(buf): the checks in the order of the code.
decode_packet(buf) ==
    IF Len(buf) < HEADER_LEN THEN Err("TooShort")
    ELSE
        LET magic == read_u32(buf, 0)
            version == read_u16(buf, 4)
            ptype == buf[7]
            plen == read_u16(buf, 7)
            seq == read_u32(buf, 9)
            chk == read_u32(buf, 13)
            payload == SubSeq(buf, HEADER_LEN + 1, HEADER_LEN + plen)
        IN  IF magic # MAGIC THEN Err("BadMagic")
            ELSE IF version # PROTOCOL_VERSION THEN Err("BadVersion")
            ELSE IF from_u8(ptype) = 0 THEN [ok |-> FALSE, err |-> "UnknownPacketType", byte |-> ptype]
            ELSE IF plen > MAX_PAYLOAD_LEN THEN Err("PayloadTooLarge")
            ELSE IF Len(buf) < HEADER_LEN + plen THEN Err("TruncatedPayload")
            ELSE IF crc32(payload) # chk THEN Err("BadChecksum")
            ELSE [ok |-> TRUE,
                  header |-> [magic |-> magic, version |-> version,
                              packet_type |-> ptype, payload_len |-> plen,
                              sequence |-> seq, checksum |-> chk],
                  packet_type |-> from_u8(ptype),
                  payload |-> payload]

(***************************************************************************)
(* dataref-schema and efb-protocol: the snapshot and its wire form.  A     *)
(* float is its IEEE-754 bit pattern: an f32 is <<high, low>> 16-bit       *)
(* words, an f64 is four 16-bit words, highest first.  An i32 is an        *)
(* integer, a u8 a byte and a bool a BOOLEAN.                              *)
(***************************************************************************)
\* struct SimSnapshot: <<field, type, array length (0 for a scalar)>>.
SimSnapshot ==
    <<
      <<"latitude", "f64", 0>>, <<"longitude", "f64", 0>>,
      <<"elevation_m", "f64", 0>>, <<"groundspeed_ms", "f32", 0>>,
      <<"pitch_deg", "f32", 0>>, <<"roll_deg", "f32", 0>>,
      <<"mag_heading_deg", "f32", 0>>, <<"ground_track_deg", "f32", 0>>,
      <<"ias_kts", "f32", 0>>, <<"tas_kts", "f32", 0>>,
      <<"vvi_fpm", "f32", 0>>, <<"turn_rate_deg_sec", "f32", 0>>,
      <<"slip_deg", "f32", 0>>, <<"oat_degc", "f32", 0>>,
      <<"barometer_inhg", "f32", 0>>, <<"rpm", "f32", 0>>,
      <<"map_inhg", "f32", 0>>, <<"fuel_flow_kg_sec", "f32", 0>>,
      <<"oil_press_psi", "f32", 0>>, <<"oil_temp_degc", "f32", 0>>,
      <<"egt_degc", "f32", 6>>, <<"fuel_qty_kg", "f32", 2>>,
      <<"bus_volts", "f32", 0>>, <<"battery_amps", "f32", 0>>,
      <<"suction_inhg", "f32", 0>>, <<"nav1_hdef_dot", "f32", 0>>,
      <<"nav1_vdef_dot", "f32", 0>>, <<"nav1_obs_deg", "f32", 0>>,
      <<"gps_dist_nm", "f32", 0>>, <<"gps_bearing_deg", "f32", 0>>,
      <<"ap_state_flags", "i32", 0>>, <<"fd_pitch_deg", "f32", 0>>,
      <<"fd_roll_deg", "f32", 0>>, <<"ap_heading_bug_deg", "f32", 0>>,
      <<"ap_altitude_ft", "f32", 0>>, <<"ap_vs_fpm", "f32", 0>>,
      <<"com1_active_hz", "i32", 0>>, <<"com1_standby_hz", "i32", 0>>,
      <<"com2_active_hz", "i32", 0>>, <<"nav1_active_hz", "i32", 0>>,
      <<"nav1_standby_hz", "i32", 0>>, <<"transponder_code", "i32", 0>>,
      <<"transponder_mode", "i32", 0>>, <<"outer_marker", "bool", 0>>,
      <<"middle_marker", "bool", 0>>, <<"inner_marker", "bool", 0>>,
      <<"wind_dir_deg", "f32", 0>>, <<"wind_speed_kt", "f32", 0>>,
      <<"traffic_lat", "f32", 20>>, <<"traffic_lon", "f32", 20>>,
      <<"traffic_ele_m", "f32", 20>>, <<"traffic_count", "u8", 0>>,
      <<"hsi_source", "i32", 0>>
    >>

SnapshotFields == {SimSnapshot[i][1] : i \in 1..Len(SimSnapshot)}
IndexOf(f) == CHOOSE i \in 1..Len(SimSnapshot) : SimSnapshot[i][1] = f
TypeOf(f) == SimSnapshot[IndexOf(f)][2]
ArrayLen(f) == SimSnapshot[IndexOf(f)][3]

\* 0, 0.0 and false of a type.
ZeroOf(ty) ==
    CASE ty = "f64" -> <<0, 0, 0, 0>>
      [] ty = "f32" -> <<0, 0>>
      [] ty = "i32" -> 0
      [] ty = "u8" -> 0
      [] ty = "bool" -> FALSE

\* SimSnapshot::default(): everything zero but oat_degc = 15.0 and
\* barometer_inhg = 29.92.
SimSnapshot_default ==
    [f \in SnapshotFields |->
        CASE f = "oat_degc" -> <<16752, 0>>
          [] f = "barometer_inhg" -> <<16879, 23593>>
          [] OTHER ->
                IF ArrayLen(f) = 0 THEN ZeroOf(TypeOf(f))
                ELSE [k \in 1..ArrayLen(f) |-> ZeroOf(TypeOf(f))]]

\* tests::make_snap(), the literals as bit patterns.
make_snap ==
    [SimSnapshot_default EXCEPT
        !["latitude"] = <<49210, 8958, 50541, 23803>>,
        !["longitude"] = <<16444, 15800, 47815, 4299>>,
        !["elevation_m"] = <<16538, 30720, 0, 0>>,
        !["ias_kts"] = <<17137, 0>>,
        !["mag_heading_deg"] = <<17287, 0>>,
        !["barometer_inhg"] = <<16879, 23593>>,
        !["oat_degc"] = <<16816, 0>>,
        !["egt_degc"] = <<<<17450, 0>>, <<17452, 32768>>, <<17453, 49152>>,
                          <<17451, 16384>>, <<17452, 0>>, <<17453, 0>>>>,
        !["fuel_qty_kg"] = <<<<17046, 0>>, <<17046, 0>>>>,
        !["traffic_count"] = 2,
        !["traffic_lat"] = [@ EXCEPT ![1] = <<49617, 7864>>, ![2] = <<49617, 39322>>],
        !["traffic_lon"] = [@ EXCEPT ![1] = <<16866, 0>>, ![2] = <<16866, 26214>>],
        !["transponder_code"] = 7000,
        !["com1_active_hz"] = 118025000]

\* A snapshot whose every slot differs from every other of its type: floats
\* with the sign bit set (NaN patterns among them), negative integers, the
\* least i32, markers set and the largest count.
distinct_value(ty, i, k) ==
    CASE ty = "f64" -> <<65535 - i, i, 2 * i, 3 * i>>
      [] ty = "f32" -> <<32768 + 256 * i + k, 65535 - i>>
      [] ty = "i32" -> IF i = IndexOf("ap_state_flags") THEN (-2147483647) - 1
                       ELSE (-1000003) * i
      [] ty = "u8" -> 255
      [] ty = "bool" -> i # IndexOf("middle_marker")

distinct_snap ==
    [f \in SnapshotFields |->
        IF ArrayLen(f) = 0 THEN distinct_value(TypeOf(f), IndexOf(f), 0)
        ELSE [k \in 1..ArrayLen(f) |-> distinct_value(TypeOf(f), IndexOf(f), k)]]

\* to_le_bytes of a value of a type; a bool is pushed `as u8`.
to_le_bytes(ty, v) ==
    CASE ty = "f64" -> u16_le(v[4]) \o u16_le(v[3]) \o u16_le(v[2]) \o u16_le(v[1])
      [] ty = "f32" -> u32_le(v)
      [] ty = "i32" -> u16_le(v % U16Mod) \o u16_le((v \div U16Mod) % U16Mod)
      [] ty = "u8" -> <<v>>
      [] ty = "bool" -> <<IF v THEN 1 ELSE 0>>

RECURSIVE ser_array(_, _, _)
ser_array(ty, a, k) ==
    IF k > Len(a) THEN <<>> ELSE to_le_bytes(ty, a[k]) \o ser_array(ty, a, k + 1)

\* The fields in the order serialize_snapshot appends them.
SerializeOrder ==
    <<
      "latitude", "longitude", "elevation_m", "groundspeed_ms", "pitch_deg",
      "roll_deg", "mag_heading_deg", "ground_track_deg", "ias_kts",
      "tas_kts", "vvi_fpm", "turn_rate_deg_sec", "slip_deg", "oat_degc",
      "barometer_inhg", "rpm", "map_inhg", "fuel_flow_kg_sec",
      "oil_press_psi", "oil_temp_degc", "egt_degc", "fuel_qty_kg",
      "bus_volts", "battery_amps", "suction_inhg", "nav1_hdef_dot",
      "nav1_vdef_dot", "nav1_obs_deg", "gps_dist_nm", "gps_bearing_deg",
      "ap_state_flags", "fd_pitch_deg", "fd_roll_deg", "ap_heading_bug_deg",
      "ap_altitude_ft", "ap_vs_fpm", "com1_active_hz", "com1_standby_hz",
      "com2_active_hz", "nav1_active_hz", "nav1_standby_hz",
      "transponder_code", "transponder_mode", "outer_marker",
      "middle_marker", "inner_marker", "wind_dir_deg", "wind_speed_kt",
      "traffic_lat", "traffic_lon", "traffic_ele_m", "traffic_count",
      "hsi_source"
    >>

RECURSIVE ser_fields(_, _)
ser_fields(s, i) ==
    IF i > Len(SerializeOrder) THEN <<>>
    ELSE LET f == SerializeOrder[i]
         IN  (IF ArrayLen(f) = 0 THEN to_le_bytes(TypeOf(f), s[f])
              ELSE ser_array(TypeOf(f), s[f], 1))
             \o ser_fields(s, i + 1)

\* A serializer that writes the two COM1 frequencies in each other's place.
serialize_snapshot_swapped(s) ==
    ser_fields([s EXCEPT !["com1_active_hz"] = s["com1_standby_hz"],
                         !["com1_standby_hz"] = s["com1_active_hz"]], 1)

serialize_snapshot(s) == ser_fields(s, 1)

\* The fields in the order deserialize_snapshot reads them:
\* <<field, reader, array length (0 for a scalar)>>.
DeserializeOrder ==
    <<
      <<"latitude", "rd_f64", 0>>, <<"longitude", "rd_f64", 0>>,
      <<"elevation_m", "rd_f64", 0>>, <<"groundspeed_ms", "rd_f32", 0>>,
      <<"pitch_deg", "rd_f32", 0>>, <<"roll_deg", "rd_f32", 0>>,
      <<"mag_heading_deg", "rd_f32", 0>>,
      <<"ground_track_deg", "rd_f32", 0>>, <<"ias_kts", "rd_f32", 0>>,
      <<"tas_kts", "rd_f32", 0>>, <<"vvi_fpm", "rd_f32", 0>>,
      <<"turn_rate_deg_sec", "rd_f32", 0>>, <<"slip_deg", "rd_f32", 0>>,
      <<"oat_degc", "rd_f32", 0>>, <<"barometer_inhg", "rd_f32", 0>>,
      <<"rpm", "rd_f32", 0>>, <<"map_inhg", "rd_f32", 0>>,
      <<"fuel_flow_kg_sec", "rd_f32", 0>>, <<"oil_press_psi", "rd_f32", 0>>,
      <<"oil_temp_degc", "rd_f32", 0>>, <<"egt_degc", "rd_f32", 6>>,
      <<"fuel_qty_kg", "rd_f32", 2>>, <<"bus_volts", "rd_f32", 0>>,
      <<"battery_amps", "rd_f32", 0>>, <<"suction_inhg", "rd_f32", 0>>,
      <<"nav1_hdef_dot", "rd_f32", 0>>, <<"nav1_vdef_dot", "rd_f32", 0>>,
      <<"nav1_obs_deg", "rd_f32", 0>>, <<"gps_dist_nm", "rd_f32", 0>>,
      <<"gps_bearing_deg", "rd_f32", 0>>, <<"ap_state_flags", "rd_i32", 0>>,
      <<"fd_pitch_deg", "rd_f32", 0>>, <<"fd_roll_deg", "rd_f32", 0>>,
      <<"ap_heading_bug_deg", "rd_f32", 0>>,
      <<"ap_altitude_ft", "rd_f32", 0>>, <<"ap_vs_fpm", "rd_f32", 0>>,
      <<"com1_active_hz", "rd_i32", 0>>, <<"com1_standby_hz", "rd_i32", 0>>,
      <<"com2_active_hz", "rd_i32", 0>>, <<"nav1_active_hz", "rd_i32", 0>>,
      <<"nav1_standby_hz", "rd_i32", 0>>,
      <<"transponder_code", "rd_i32", 0>>,
      <<"transponder_mode", "rd_i32", 0>>,
      <<"outer_marker", "rd_u8_bool", 0>>,
      <<"middle_marker", "rd_u8_bool", 0>>,
      <<"inner_marker", "rd_u8_bool", 0>>, <<"wind_dir_deg", "rd_f32", 0>>,
      <<"wind_speed_kt", "rd_f32", 0>>, <<"traffic_lat", "rd_f32", 20>>,
      <<"traffic_lon", "rd_f32", 20>>, <<"traffic_ele_m", "rd_f32", 20>>,
      <<"traffic_count", "rd_u8", 0>>, <<"hsi_source", "rd_i32", 0>>
    >>

\* The bytes a reader macro consumes.
SizeOf(reader) ==
    CASE reader = "rd_f64" -> 8
      [] reader = "rd_f32" -> 4
      [] reader = "rd_i32" -> 4
      [] reader = "rd_u8" -> 1
      [] reader = "rd_u8_bool" -> 1

\* from_le_bytes at offset p; `rd_u8!() != 0` for a bool.
rd(reader, buf, p) ==
    CASE reader = "rd_f64" ->
            <<read_u16(buf, p + 6), read_u16(buf, p + 4),
              read_u16(buf, p + 2), read_u16(buf, p)>>
      [] reader = "rd_f32" -> read_u32(buf, p)
      [] reader = "rd_i32" ->
            IF read_u16(buf, p + 2) >= 32768
            THEN (read_u16(buf, p + 2) - U16Mod) * U16Mod + read_u16(buf, p)
            ELSE read_u16(buf, p + 2) * U16Mod + read_u16(buf, p)
      [] reader = "rd_u8" -> buf[p + 1]
      [] reader = "rd_u8_bool" -> buf[p + 1] # 0

\* The fields from the i-th on are read at offset p; `?` returns None as
\* soon as the bytes run out.
RECURSIVE rd_fields(_, _, _, _)
rd_fields(buf, i, p, acc) ==
    IF i > Len(DeserializeOrder) THEN [some |-> TRUE, snap |-> acc]
    ELSE LET e == DeserializeOrder[i]
             n == IF e[3] = 0 THEN 1 ELSE e[3]
             size == n * SizeOf(e[2])
         IN  IF Len(buf) < p + size THEN [some |-> FALSE]
             ELSE rd_fields(buf, i + 1, p + size,
                    acc @@ (e[1] :>
                        (IF e[3] = 0 THEN rd(e[2], buf, p)
                         ELSE [k \in 1..n |-> rd(e[2], buf, p + (k - 1) * SizeOf(e[2]))])))

\* A reader that takes a missing hsi_source, the last field, for 0.
deserialize_snapshot_short(buf) ==
    IF Len(buf) >= 460 /\ Len(buf) < 464
    THEN rd_fields(buf \o <<0, 0, 0, 0>>, 1, 0, <<>>)
    ELSE rd_fields(buf, 1, 0, <<>>)

deserialize_snapshot(buf) == rd_fields(buf, 1, 0, <<>>)

decode_sim_data(payload) ==
    IF deserialize_snapshot(payload).some
    THEN [ok |-> TRUE, snapshot |-> deserialize_snapshot(payload).snap]
    ELSE Err("TruncatedPayload")

encode_sim_data(seq, snapshot) ==
    build_packet(seq, PT_SimData, serialize_snapshot(snapshot))

(***************************************************************************)
(* xplane-efb-plugin: constants, the XPLM capability state and the command *)
(* dispatcher.                                                             *)
(***************************************************************************)
DEFAULT_HZ == 20
MAX_HZ == 60
\* WATCHDOG_TIMEOUT in seconds.
WATCHDOG_TIMEOUT == 5

None == "None"
\* Sender addresses of inbound datagrams.
Addr == {"A1", "A2"}

\* The cached handles the commands use, with the dataref path of each.
HandleFields ==
    {"com1_active_hz", "com1_standby_hz", "com2_active_hz",
     "nav1_active_hz", "nav1_standby_hz", "ap_heading_bug_deg"}
PathOf ==
    [f \in HandleFields |->
        CASE f = "com1_active_hz" -> "sim/cockpit2/radios/actuators/com1_frequency_hz"
          [] f = "com1_standby_hz" -> "sim/cockpit2/radios/actuators/com1_standby_frequency_hz"
          [] f = "com2_active_hz" -> "sim/cockpit2/radios/actuators/com2_frequency_hz"
          [] f = "nav1_active_hz" -> "sim/cockpit2/radios/actuators/nav1_frequency_hz"
          [] f = "nav1_standby_hz" -> "sim/cockpit2/radios/actuators/nav1_standby_frequency_hz"
          [] f = "ap_heading_bug_deg" -> "sim/cockpit/autopilot/heading_mag"]
Paths == {PathOf[f] : f \in HandleFields}

\* The values the datarefs hold when the simulator starts.
InitialDatarefs ==
    [p \in Paths |->
        CASE p = PathOf["com1_active_hz"] -> 118025000
          [] p = PathOf["com1_standby_hz"] -> 121500000
          [] p = PathOf["com2_active_hz"] -> 119000000
          [] p = PathOf["nav1_active_hz"] -> 108000000
          [] p = PathOf["nav1_standby_hz"] -> 109900000
          [] p = PathOf["ap_heading_bug_deg"] -> 0]

\* XplmApi::find_dataref: a handle stands for the path it resolved.
find_dataref(d, path) == IF path \in DOMAIN d THEN path ELSE None
\* XplmApi::get_int.
get_int(d, h) == d[h]
\* The capability state is x = [d, writes, logs]: the dataref values, the
\* writes made (set_int_log, set_float_log) and the log lines.  A capability
\* that records every call made through the trait has a field calls too.
note(x, call) ==
    IF "calls" \in DOMAIN x THEN [x EXCEPT !.calls = Append(@, call)] ELSE x
\* XplmApi::set_int / set_float.
set_value(x, h, v) ==
    note([x EXCEPT !.d = [@ EXCEPT ![h] = v], !.writes = Append(@, <<h, v>>)],
         <<"set", h, v>>)
\* XplmApi::log.
log(x, message) == note([x EXCEPT !.logs = Append(@, message)], <<"log">>)

\* The host keeps what the entry point it called last returned: a capability
\* state with a field returned holds <<entry point, value>>.
ret(x, entry, value) ==
    IF "returned" \in DOMAIN x THEN [x EXCEPT !.returned = <<entry, value>>] ELSE x

\* The network keeps the frames send_to accepted: a capability state with
\* a field delivered holds them in order.  A frame whose send_to returned
\* Err went nowhere.
deliver(x, send_ok, f) ==
    IF "delivered" \in DOMAIN x /\ send_ok
    THEN [x EXCEPT !.delivered = Append(@, f)] ELSE x

\* 1.0 / hz as f32: the f32 quotient of 1 and hz, written <<1, hz>>;
\* dividing by 0.0 gives infinity.
interval_of(hz) == IF hz = 0 THEN <<1, 0, "inf">> ELSE <<1, hz>>

\* `value as f32` of a whole number v >= 0: v itself up to 2^24, beyond that
\* the nearest multiple of the spacing of f32 at v, ties to the even one.
RECURSIVE f32_spacing(_)
f32_spacing(v) == IF v < 16777216 THEN 1 ELSE 2 * f32_spacing(v \div 2)

\* A conversion that keeps every whole number as it is.
as_f32_exact(v) == v

as_f32(v) ==
    LET ulp == f32_spacing(v)
        q == v \div ulp
        r == v % ulp
    IN  IF 2 * r > ulp \/ (2 * r = ulp /\ q % 2 = 1) THEN (q + 1) * ulp ELSE q * ulp

\* DataRefHandles::default(): every handle None.
DefaultHandles == [f \in HandleFields |-> None]
\* find_handles: every cached handle is looked up again.
find_handles(d) == [f \in HandleFields |-> find_dataref(d, PathOf[f])]

\* The fields in the order find_handles looks them up.
HandleOrder ==
    <<"ap_heading_bug_deg", "com1_active_hz", "com1_standby_hz",
      "com2_active_hz", "nav1_active_hz", "nav1_standby_hz">>

\* find_handles: the capability state after "dataref not found" is logged
\* for the fields from the i-th on that do not resolve.
RECURSIVE find_handles_log(_, _)
find_handles_log(x, i) ==
    IF i > Len(HandleOrder) THEN x
    ELSE LET x1 == note(x, <<"find_dataref", PathOf[HandleOrder[i]]>>)
         IN  IF find_dataref(x.d, PathOf[HandleOrder[i]]) = None
             THEN find_handles_log(log(x1, <<"dataref not found", HandleOrder[i]>>), i + 1)
             ELSE find_handles_log(x1, i + 1)

\* The command texts of the model, as UTF-8 bytes.
SwapCom1Text ==
    <<123, 34, 99, 109, 100, 34, 58, 34, 115, 119, 97, 112, 95, 102, 114, 101,
      113, 34, 44, 34, 114, 97, 100, 105, 111, 34, 58, 34, 67, 79, 77, 49,
      34, 125>>

\* {"cmd":"set_dataref","path":"sim/cockpit/autopilot/heading_mag","value":270.0}
SetHeadingText ==
    <<123, 34, 99, 109, 100, 34, 58, 34, 115, 101, 116, 95, 100, 97, 116, 97,
      114, 101, 102, 34, 44, 34, 112, 97, 116, 104, 34, 58, 34, 115, 105,
      109, 47, 99, 111, 99, 107, 112, 105, 116, 47, 97, 117, 116, 111, 112,
      105, 108, 111, 116, 47, 104, 101, 97, 100, 105, 110, 103, 95, 109, 97,
      103, 34, 44, 34, 118, 97, 108, 117, 101, 34, 58, 50, 55, 48, 46, 48,
      125>>

\* {"cmd":"set_dataref","path":"sim/custom/absent","value":1.0}
SetAbsentText ==
    <<123, 34, 99, 109, 100, 34, 58, 34, 115, 101, 116, 95, 100, 97, 116, 97,
      114, 101, 102, 34, 44, 34, 112, 97, 116, 104, 34, 58, 34, 115, 105,
      109, 47, 99, 117, 115, 116, 111, 109, 47, 97, 98, 115, 101, 110, 116,
      34, 44, 34, 118, 97, 108, 117, 101, 34, 58, 49, 46, 48, 125>>

\* {"cmd":"swap_freq","radio":"COM2"}
SwapCom2Text ==
    <<123, 34, 99, 109, 100, 34, 58, 34, 115, 119, 97, 112, 95, 102, 114,
      101, 113, 34, 44, 34, 114, 97, 100, 105, 111, 34, 58, 34, 67, 79, 77,
      50, 34, 125>>

\* {"cmd":"swap_freq","radio":"NAV1"}
SwapNav1Text ==
    <<123, 34, 99, 109, 100, 34, 58, 34, 115, 119, 97, 112, 95, 102, 114,
      101, 113, 34, 44, 34, 114, 97, 100, 105, 111, 34, 58, 34, 78, 65, 86,
      49, 34, 125>>

\* {"cmd":"swap_freq","radio":"ADF1"}
SwapAdf1Text ==
    <<123, 34, 99, 109, 100, 34, 58, 34, 115, 119, 97, 112, 95, 102, 114,
      101, 113, 34, 44, 34, 114, 97, 100, 105, 111, 34, 58, 34, 65, 68, 70,
      49, 34, 125>>

\* {"cmd":"set_dataref","path":"sim/cockpit/autopilot/heading_mag","value":16777217.0}
SetPreciseText ==
    <<123, 34, 99, 109, 100, 34, 58, 34, 115, 101, 116, 95, 100, 97, 116, 97,
      114, 101, 102, 34, 44, 34, 112, 97, 116, 104, 34, 58, 34, 115, 105,
      109, 47, 99, 111, 99, 107, 112, 105, 116, 47, 97, 117, 116, 111, 112,
      105, 108, 111, 116, 47, 104, 101, 97, 100, 105, 110, 103, 95, 109, 97,
      103, 34, 44, 34, 118, 97, 108, 117, 101, 34, 58, 49, 54, 55, 55, 55,
      50, 49, 55, 46, 48, 125>>

\* {"cmd":"swap_freq"}
MissingFieldText ==
    <<123, 34, 99, 109, 100, 34, 58, 34, 115, 119, 97, 112, 95, 102, 114,
      101, 113, 34, 125>>

\* Payloads that are no command: text that is not JSON, a tag that Command
\* does not have, bytes that are not UTF-8 (and, above, a swap_freq
\* without its radio).
NotJsonText ==
    <<110, 111, 116, 32, 106, 115, 111, 110>>
UnknownTagText ==
    <<123, 34, 99, 109, 100, 34, 58, 34, 101, 106, 101, 99, 116, 34, 125>>
NotUtf8Bytes == <<255, 254, 253>>

\* The result of a payload that does not parse.
NoCommand == [cmd |-> "none"]

\* std::str::from_utf8 followed by serde_json::from_str::<Command>: the
\* command a payload parses to, or NoCommand.
ParseCommand(payload) ==
    IF payload = SwapCom1Text THEN [cmd |-> "swap_freq", radio |-> "COM1"]
    ELSE IF payload = SetHeadingText
    THEN [cmd |-> "set_dataref", path |-> "sim/cockpit/autopilot/heading_mag", value |-> 270]
    ELSE IF payload = SetAbsentText
    THEN [cmd |-> "set_dataref", path |-> "sim/custom/absent", value |-> 1]
    ELSE IF payload = SetPreciseText
    THEN [cmd |-> "set_dataref", path |-> "sim/cockpit/autopilot/heading_mag",
          value |-> 16777217]
    ELSE IF payload = SwapCom2Text THEN [cmd |-> "swap_freq", radio |-> "COM2"]
    ELSE IF payload = SwapNav1Text THEN [cmd |-> "swap_freq", radio |-> "NAV1"]
    ELSE IF payload = SwapAdf1Text THEN [cmd |-> "swap_freq", radio |-> "ADF1"]
    ELSE NoCommand

\* A swap that writes the active value first and reads the standby value
\* for the second write afterwards.
swap_freq_sequential(x, h, radio) ==
    IF radio \notin {"COM1", "NAV1"} THEN x
    ELSE
        LET active_h == IF radio = "COM1" THEN h["com1_active_hz"] ELSE h["nav1_active_hz"]
            standby_h == IF radio = "COM1" THEN h["com1_standby_hz"] ELSE h["nav1_standby_hz"]
        IN  IF active_h # None /\ standby_h # None
            THEN LET x1 == set_value(note(x, <<"get_int", standby_h>>), active_h,
                                     get_int(x.d, standby_h))
                 IN  set_value(note(x1, <<"get_int", active_h>>), standby_h,
                               get_int(x1.d, active_h))
            ELSE x

\* A swap that writes whichever of the two handles it has: the active one
\* gets the standby value (its own when there is no standby handle), the
\* standby one the active value; COM2 and unknown radios use the COM2 handle.
swap_freq_one_sided(x, h, radio) ==
    LET active_h == CASE radio = "COM1" -> h["com1_active_hz"]
                      [] radio = "NAV1" -> h["nav1_active_hz"]
                      [] OTHER -> h["com2_active_hz"]
        standby_h == CASE radio = "COM1" -> h["com1_standby_hz"]
                       [] radio = "NAV1" -> h["nav1_standby_hz"]
                       [] OTHER -> None
        x1 == IF active_h # None
              THEN set_value(x, active_h,
                             IF standby_h # None THEN get_int(x.d, standby_h)
                             ELSE get_int(x.d, active_h))
              ELSE x
    IN  IF standby_h # None /\ active_h # None
        THEN set_value(x1, standby_h, get_int(x.d, active_h))
        ELSE IF standby_h # None THEN set_value(x1, standby_h, get_int(x.d, standby_h))
        ELSE x1

\* swap_freq on the capability state x with the cached handles h.
swap_freq(x, h, radio) ==
    IF radio \notin {"COM1", "COM2", "NAV1"} THEN x
    ELSE
        LET active_h == CASE radio = "COM1" -> h["com1_active_hz"]
                          [] radio = "COM2" -> h["com2_active_hz"]
                          [] radio = "NAV1" -> h["nav1_active_hz"]
            standby_h == CASE radio = "COM1" -> h["com1_standby_hz"]
                           [] radio = "COM2" -> None
                           [] radio = "NAV1" -> h["nav1_standby_hz"]
        IN  IF active_h # None /\ standby_h # None
            THEN LET a == get_int(x.d, active_h)
                     s == get_int(x.d, standby_h)
                     x2 == note(note(x, <<"get_int", active_h>>), <<"get_int", standby_h>>)
                 IN  set_value(set_value(x2, active_h, s), standby_h, a)
            ELSE x

\* A handler that reports a payload it cannot parse in the log.
handle_command_reports(x, h, payload) ==
    LET cmd == ParseCommand(payload)
    IN  IF cmd.cmd = "none" THEN log(x, <<"EFB: bad command">>)
        ELSE IF cmd.cmd = "set_dataref"
        THEN LET x1 == note(x, <<"find_dataref", cmd.path>>)
             IN  IF find_dataref(x.d, cmd.path) # None
                 THEN set_value(x1, find_dataref(x.d, cmd.path), as_f32(cmd.value))
                 ELSE x1
        ELSE swap_freq(x, h, cmd.radio)

\* handle_command: the capability state after the payload is dispatched.
handle_command(x, h, payload) ==
    LET cmd == ParseCommand(payload)
    IN  IF cmd.cmd = "none" THEN x
        ELSE IF cmd.cmd = "set_dataref"
        THEN LET x1 == note(x, <<"find_dataref", cmd.path>>)
             IN  IF find_dataref(x.d, cmd.path) # None
                 THEN set_value(x1, find_dataref(x.d, cmd.path), as_f32(cmd.value))
                 ELSE x1
        ELSE swap_freq(x, h, cmd.radio)

(***************************************************************************)
(* Inbound datagrams of the model, built as the tests build them.          *)
(***************************************************************************)
\* build_ack_packet / build_reload_packet / build_command_json_packet.
AckPkt == build_packet(<<0, 0>>, PT_Ack, <<>>)
ReloadPkt == build_packet(<<0, 0>>, PT_Reload, <<>>)
SwapCom1Pkt == build_packet(<<0, 0>>, PT_CommandJson, SwapCom1Text)
\* A structurally valid SimData frame arriving inbound.
InboundSimDataPkt == build_packet(<<0, 1>>, PT_SimData, <<1, 2, 3, 4>>)
\* An Ack whose checksum field does not match its (empty) payload.
BadChecksumPkt == [AckPkt EXCEPT ![14] = 1]

\* Further CommandJson datagrams.
SetHeadingPkt == build_packet(<<0, 0>>, PT_CommandJson, SetHeadingText)
SetAbsentPkt == build_packet(<<0, 0>>, PT_CommandJson, SetAbsentText)
NotJsonPkt == build_packet(<<0, 0>>, PT_CommandJson, NotJsonText)
UnknownTagPkt == build_packet(<<0, 0>>, PT_CommandJson, UnknownTagText)
NotUtf8Pkt == build_packet(<<0, 0>>, PT_CommandJson, NotUtf8Bytes)
SwapCom2Pkt == build_packet(<<0, 0>>, PT_CommandJson, SwapCom2Text)
SwapNav1Pkt == build_packet(<<0, 0>>, PT_CommandJson, SwapNav1Text)
SwapAdf1Pkt == build_packet(<<0, 0>>, PT_CommandJson, SwapAdf1Text)
SetPrecisePkt == build_packet(<<0, 0>>, PT_CommandJson, SetPreciseText)
MissingFieldPkt == build_packet(<<0, 0>>, PT_CommandJson, MissingFieldText)

\* Buffers that are no valid datagram: empty, ten bytes of 0xFF, zeros and
\* 0xFF of more than header length, and an Ack with its version, its type,
\* or its declared length altered.
EmptyBuf == <<>>
ShortBuf == [i \in 1..10 |-> 255]
ZeroBuf == [i \in 1..(2 * HEADER_LEN) |-> 0]
OnesBuf == [i \in 1..(2 * HEADER_LEN) |-> 255]
BadVersionPkt == [AckPkt EXCEPT ![5] = 2]
UnknownTypePkt == [AckPkt EXCEPT ![7] = 9]
TruncatedPkt == [AckPkt EXCEPT ![8] = 1]

CommandPkts ==
    {SwapCom1Pkt, SetHeadingPkt, SetAbsentPkt, NotJsonPkt, UnknownTagPkt, NotUtf8Pkt,
     SwapCom2Pkt, SwapNav1Pkt, SwapAdf1Pkt, SetPrecisePkt, MissingFieldPkt}
InvalidBufs ==
    {EmptyBuf, ShortBuf, ZeroBuf, OnesBuf, BadVersionPkt, UnknownTypePkt,
     TruncatedPkt, BadChecksumPkt}

Datagrams == {AckPkt, ReloadPkt, InboundSimDataPkt} \cup CommandPkts \cup InvalidBufs

\* Valid frames that differ from AckPkt, ReloadPkt, SwapCom1Pkt and
\* InboundSimDataPkt in the fields the handlers do not look at: the sequence
\* number, and for Ack, Reload and SimData the payload (b"{}" as in
\* all_packet_types_encode_decode, or none).
AckVariantPkt == build_packet(<<65535, 65535>>, PT_Ack, <<123, 125>>)
ReloadVariantPkt == build_packet(<<0, 42>>, PT_Reload, <<123, 125>>)
SwapCom1VariantPkt == build_packet(<<65535, 65535>>, PT_CommandJson, SwapCom1Text)
SimDataVariantPkt == build_packet(<<0, 42>>, PT_SimData, <<>>)

\* <<frame, variant of the frame>>.
VariantPairs ==
    {<<AckPkt, AckVariantPkt>>, <<ReloadPkt, ReloadVariantPkt>>,
     <<SwapCom1Pkt, SwapCom1VariantPkt>>, <<InboundSimDataPkt, SimDataVariantPkt>>}

VariantPkts == {p[2] : p \in VariantPairs}

\* The datagrams recv_from returns, each with its sender: the sender
\* matters to the plugin for an Ack only.
Arrivals ==
    {<<AckPkt, "A1">>, <<AckPkt, "A2">>, <<ReloadPkt, "A1">>,
     <<SwapCom1Pkt, "A2">>, <<InboundSimDataPkt, "A1">>, <<BadChecksumPkt, "A2">>}

(***************************************************************************)
(* State.                                                                  *)
(***************************************************************************)
VARIABLES
    plugin,             \* PLUGIN (OnceLock) holds a session
    enabled,            \* the flight loop callback is registered
    tablet_addr,        \* EfbPlugin.tablet_addr: an address or None
    last_ack_elapsed,   \* EfbPlugin.last_ack_elapsed.elapsed(), in seconds
    sequence,           \* EfbPlugin.sequence, a u32 as <<hi, lo>>
    handles,            \* EfbPlugin.handles
    streaming_rate_hz,  \* EfbPlugin.streaming_rate_hz
    cmd_rx,             \* EfbPlugin.cmd_rx: the channel it receives on, 0 for None
    xplm,               \* the capability state: dataref values d, writes made, messages logged
    nthreads,           \* command-server threads spawned so far; thread t sends on channel t
    running,            \* the threads still in their receive loop
    queue,              \* the messages in the channel cmd_rx receives on
    received,           \* datagrams and errors recv_from has returned so far
    pc,                 \* position of the flight loop tick
    batch,              \* drain_messages: the messages collected by try_iter
    sent,               \* the frames handed to send_to, in order
    outcome,            \* what the last completed tick did
    at_start,           \* the messages that were queued when the last tick began
    paused_at_start,    \* whether the session was paused or peerless when it began
    drained,            \* the messages the last tick has handled so far
    codec_pc,           \* codec exercise: "idle", "encoded", "decoded" or "read"
    encoded,            \* what the encoder was given
    wire,               \* the buffer, as encoded and then altered
    edits,              \* the alterations made to the buffer, in order
    decoded,            \* what decode_packet returned for the buffer
    snap_out            \* what decode_sim_data returned for the decoded payload

session == <<tablet_addr, last_ack_elapsed, sequence, handles, streaming_rate_hz>>
codec_vars == <<codec_pc, encoded, wire, edits, decoded, snap_out>>
plugin_vars ==
    <<plugin, enabled, tablet_addr, last_ack_elapsed, sequence, handles,
      streaming_rate_hz, cmd_rx, xplm, nthreads, running, queue, received, pc, batch,
      sent, outcome, at_start, paused_at_start, drained>>
vars == <<plugin_vars, codec_vars>>

\* No codec exercise is in progress.
CodecIdle ==
    /\ codec_pc = "idle" /\ encoded = <<>> /\ wire = <<>>
    /\ edits = <<>> /\ decoded = <<>> /\ snap_out = <<>>

\* A process in which XPluginStart has not run yet.
InitLoaded ==
    /\ plugin = FALSE /\ enabled = FALSE
    /\ tablet_addr = None /\ last_ack_elapsed = 0 /\ sequence = <<0, 0>>
    /\ handles = DefaultHandles /\ streaming_rate_hz = DEFAULT_HZ /\ cmd_rx = 0
    /\ xplm = [d |-> InitialDatarefs, writes |-> <<>>, logs |-> <<>>]
    /\ nthreads = 0 /\ running = {}
    /\ queue = <<>> /\ received = 0
    /\ pc = "idle" /\ batch = <<>> /\ sent = <<>> /\ outcome = "none"
    /\ at_start = <<>> /\ paused_at_start = FALSE /\ drained = <<>>
    /\ CodecIdle

\* A session that has been streaming for a long time: started, enabled once,
\* acknowledged by A1 a moment ago, 2^32 - 1 frames sent.
InitLongRunning ==
    /\ plugin = TRUE /\ enabled = TRUE
    /\ tablet_addr = "A1" /\ last_ack_elapsed = 0 /\ sequence = <<65535, 65535>>
    /\ handles = find_handles(InitialDatarefs)
    /\ streaming_rate_hz = DEFAULT_HZ /\ cmd_rx = 1
    /\ xplm = [d |-> InitialDatarefs, writes |-> <<>>, logs |-> <<>>]
    /\ nthreads = 1 /\ running = {1}
    /\ queue = <<>> /\ received = 0
    /\ pc = "idle" /\ batch = <<>> /\ sent = <<>> /\ outcome = "none"
    /\ at_start = <<>> /\ paused_at_start = FALSE /\ drained = <<>>
    /\ CodecIdle

Init == InitLoaded \/ InitLongRunning

(***************************************************************************)
(* XPLM entry points (lib.rs).                                             *)
(***************************************************************************)
\* A session created with a watchdog that has already run out.
new_without_grace ==
    /\ tablet_addr' = None
    /\ last_ack_elapsed' = WATCHDOG_TIMEOUT + 1
    /\ sequence' = <<0, 0>>
    /\ handles' = DefaultHandles
    /\ streaming_rate_hz' = DEFAULT_HZ
    /\ cmd_rx' = 0

\* EfbPlugin::new.
new ==
    /\ tablet_addr' = None
    /\ last_ack_elapsed' = 0
    /\ sequence' = <<0, 0>>
    /\ handles' = DefaultHandles
    /\ streaming_rate_hz' = DEFAULT_HZ
    /\ cmd_rx' = 0

\* A start that goes on with a socket it could not make non-blocking.
XPluginStart_ignores_nonblocking(bind_ok, nonblocking_ok) ==
    /\ UNCHANGED codec_vars
    /\ pc = "idle"
    /\ IF bind_ok /\ ~plugin
       THEN /\ new
            /\ plugin' = TRUE
            /\ xplm' = ret(xplm, "XPluginStart", 1)
            /\ UNCHANGED <<enabled, nthreads, running, queue, received, pc, batch,
                           sent, outcome, at_start, paused_at_start, drained>>
       ELSE /\ xplm' = ret(xplm, "XPluginStart", 0)
            /\ UNCHANGED <<plugin, enabled, tablet_addr, last_ack_elapsed, sequence,
                           handles, streaming_rate_hz, cmd_rx, nthreads, running, queue,
                           received, pc, batch, sent, outcome, at_start,
                           paused_at_start, drained>>

\* XPluginStart: bind_ok is whether UdpSocket::bind succeeds, nonblocking_ok
\* whether set_nonblocking does.  PLUGIN.set fails when PLUGIN holds a
\* session already; the session just made is dropped then.
XPluginStart(bind_ok, nonblocking_ok) ==
    /\ UNCHANGED codec_vars
    /\ pc = "idle"
    /\ IF bind_ok /\ nonblocking_ok /\ ~plugin
       THEN /\ new
            /\ plugin' = TRUE
            /\ xplm' = ret(xplm, "XPluginStart", 1)
            /\ UNCHANGED <<enabled, nthreads, running, queue, received, pc, batch,
                           sent, outcome, at_start, paused_at_start, drained>>
       ELSE /\ xplm' = ret(xplm, "XPluginStart", 0)
            /\ UNCHANGED <<plugin, enabled, tablet_addr, last_ack_elapsed, sequence,
                           handles, streaming_rate_hz, cmd_rx, nthreads, running, queue,
                           received, pc, batch, sent, outcome, at_start,
                           paused_at_start, drained>>

\* XPluginStop: a line is written to the host's log, nothing else.
XPluginStop ==
    /\ UNCHANGED codec_vars
    /\ pc = "idle"
    /\ xplm' = ret(xplm, "XPluginStop", None)
    /\ UNCHANGED <<plugin, enabled, tablet_addr, last_ack_elapsed, sequence,
                   handles, streaming_rate_hz, cmd_rx, nthreads, running, queue,
                   received, pc, batch, sent, outcome, at_start,
                   paused_at_start, drained>>

\* start_command_server: a new channel replaces cmd_rx (the old receiver and
\* the messages still in it are dropped) and a new thread is spawned with the
\* sender; threads spawned earlier keep running.
start_command_server ==
    /\ cmd_rx' = nthreads + 1
    /\ queue' = <<>>
    /\ nthreads' = nthreads + 1
    /\ running' = running \cup {nthreads + 1}

\* XPluginEnable, called by the host while the plugin is disabled.
XPluginEnable ==
    /\ UNCHANGED codec_vars
    /\ ~enabled /\ pc = "idle"
    /\ IF plugin
       THEN /\ nthreads < MaxEnables
            /\ handles' = find_handles(xplm.d)
            /\ xplm' = ret(find_handles_log(xplm, 1), "XPluginEnable", 1)
            /\ start_command_server
            /\ enabled' = TRUE
       ELSE /\ xplm' = ret(xplm, "XPluginEnable", 0)
            /\ UNCHANGED <<handles, cmd_rx, queue, nthreads, running, enabled>>
    /\ UNCHANGED <<plugin, tablet_addr, last_ack_elapsed, sequence, streaming_rate_hz,
                   received, pc, batch, sent, outcome, at_start, paused_at_start, drained>>

\* XPluginDisable: the flight loop callback is unregistered, nothing else.
XPluginDisable ==
    /\ UNCHANGED codec_vars
    /\ enabled /\ pc = "idle"
    /\ enabled' = FALSE
    /\ UNCHANGED <<plugin, tablet_addr, last_ack_elapsed, sequence, handles,
                   streaming_rate_hz, cmd_rx, xplm, nthreads, running, queue,
                   received, pc, batch, sent, outcome, at_start, paused_at_start, drained>>

(***************************************************************************)
(* The command-server thread (plugin.rs, start_command_server).            *)
(***************************************************************************)
\* No InternalMsg: the datagram is dropped.
NoMsg == [kind |-> "None"]

\* The InternalMsg a datagram is forwarded as, or NoMsg when it is dropped.
classify(data, from) ==
    LET r == decode_packet(data)
    IN  IF ~r.ok THEN NoMsg
        ELSE IF r.packet_type = PT_Ack THEN [kind |-> "Ack", addr |-> from]
        ELSE IF r.packet_type = PT_CommandJson THEN [kind |-> "Command", payload |-> r.payload]
        ELSE IF r.packet_type = PT_Reload THEN [kind |-> "Reload"]
        ELSE NoMsg

ClassifyTable == [x \in Arrivals |-> classify(x[1], x[2])]

\* tx.send(msg) by thread t: the message joins the channel when its receiver
\* is still cmd_rx; otherwise send returns Err, which the thread ignores.
tx_send(t, msg) ==
    IF msg.kind # "None" /\ cmd_rx = t THEN queue' = Append(queue, msg) ELSE queue' = queue

\* Fault seeded for SingleMutator: the thread stores the sender of an Ack in
\* the session itself.
command_server_recv_direct(t, data, from) ==
    /\ UNCHANGED codec_vars
    /\ t \in running
    /\ received < MaxDatagrams
    /\ received' = received + 1
    /\ IF ClassifyTable[<<data, from>>].kind = "Ack"
       THEN tablet_addr' = from
       ELSE tablet_addr' = tablet_addr
    /\ tx_send(t, ClassifyTable[<<data, from>>])
    /\ UNCHANGED <<plugin, enabled, last_ack_elapsed, sequence, handles,
                   streaming_rate_hz, cmd_rx, xplm, nthreads, running,
                   pc, batch, sent, outcome, at_start, paused_at_start, drained>>

\* decode_packet on each datagram that arrives.
ArrivalDecoded == [x \in Arrivals |-> decode_packet(x[1])]

\* handle_incoming_packet(buf, from) on a session s held as a value: its
\* peer and handles next to the state of its own capability (d, writes,
\* logs).
direct_step(s, data, from) ==
    LET r == ArrivalDecoded[<<data, from>>]
    IN  IF ~r.ok THEN log(s, <<"EFB: dropped packet", r.err>>)
        ELSE IF r.packet_type = PT_Ack THEN [s EXCEPT !.tablet_addr = from]
        ELSE IF r.packet_type = PT_CommandJson THEN handle_command(s, s.handles, r.payload)
        ELSE IF r.packet_type = PT_Reload
        THEN [find_handles_log(s, 1) EXCEPT !.handles = find_handles(s.d)]
        ELSE s

\* A capability state with a field direct holds a second session, over a
\* simulator of its own, that is handed every datagram the socket returns
\* through handle_incoming_packet, in the order of arrival.
mirror(x, data, from) ==
    IF "direct" \in DOMAIN x
    THEN [x EXCEPT !.direct = direct_step(@, data, from)] ELSE x

\* One iteration of the loop of thread t on Ok((n, from)): recv_from hands
\* the thread the next datagram of the socket, data sent by from.
command_server_recv(t, data, from) ==
    /\ UNCHANGED codec_vars
    /\ t \in running
    /\ received < MaxDatagrams
    /\ received' = received + 1
    /\ tx_send(t, ClassifyTable[<<data, from>>])
    /\ xplm' = mirror(xplm, data, from)
    /\ UNCHANGED <<plugin, enabled, tablet_addr, last_ack_elapsed, sequence, handles,
                   streaming_rate_hz, cmd_rx, nthreads, running,
                   pc, batch, sent, outcome, at_start, paused_at_start, drained>>

\* A loop that takes WouldBlock for the end of the socket and leaves.
command_server_would_block_exits(t) ==
    /\ UNCHANGED codec_vars
    /\ t \in running
    /\ running' = running \ {t}
    /\ UNCHANGED <<plugin, enabled, tablet_addr, last_ack_elapsed, sequence, handles,
                   streaming_rate_hz, cmd_rx, xplm, nthreads, queue, received, pc, batch,
                   sent, outcome, at_start, paused_at_start, drained>>

\* One iteration on WouldBlock: the thread sleeps and retries.
command_server_would_block(t) ==
    /\ t \in running
    /\ UNCHANGED vars

\* One iteration on any other error of recv_from: the thread leaves the loop.
command_server_exit(t) ==
    /\ UNCHANGED codec_vars
    /\ t \in running
    /\ received < MaxDatagrams
    /\ received' = received + 1
    /\ running' = running \ {t}
    /\ UNCHANGED <<plugin, enabled, tablet_addr, last_ack_elapsed, sequence, handles,
                   streaming_rate_hz, cmd_rx, xplm, nthreads, queue, pc, batch, sent,
                   outcome, at_start, paused_at_start, drained>>

(***************************************************************************)
(* The flight loop tick (plugin.rs).                                       *)
(***************************************************************************)
\* Fault seeded for WatchdogGate: the watchdog fires at exactly WATCHDOG_TIMEOUT.
is_streaming_active_strict == last_ack_elapsed < WATCHDOG_TIMEOUT

\* is_streaming_active.
is_streaming_active == last_ack_elapsed <= WATCHDOG_TIMEOUT

\* Fault seeded for ReloadOnlyReresolves: a Reload refreshes the watchdog too.
handle_internal_msg_reload_stamps(msg) ==
    IF msg.kind = "Ack"
    THEN /\ last_ack_elapsed' = 0
         /\ tablet_addr' = msg.addr
         /\ UNCHANGED <<handles, xplm>>
    ELSE IF msg.kind = "Command"
    THEN /\ xplm' = handle_command(xplm, handles, msg.payload)
         /\ UNCHANGED <<last_ack_elapsed, tablet_addr, handles>>
    ELSE /\ handles' = find_handles(xplm.d)
         /\ xplm' = find_handles_log(xplm, 1)
         /\ last_ack_elapsed' = 0
         /\ UNCHANGED tablet_addr

\* handle_internal_msg.
handle_internal_msg(msg) ==
    IF msg.kind = "Ack"
    THEN /\ last_ack_elapsed' = 0
         /\ tablet_addr' = msg.addr
         /\ UNCHANGED <<handles, xplm>>
    ELSE IF msg.kind = "Command"
    THEN /\ xplm' = handle_command(xplm, handles, msg.payload)
         /\ UNCHANGED <<last_ack_elapsed, tablet_addr, handles>>
    ELSE /\ handles' = find_handles(xplm.d)
         /\ xplm' = find_handles_log(xplm, 1)
         /\ UNCHANGED <<last_ack_elapsed, tablet_addr>>

\* flight_loop_cb: the host calls the registered callback, which locks PLUGIN
\* and enters flight_loop_tick; drain_messages returns at once without cmd_rx.
flight_loop_cb ==
    /\ UNCHANGED codec_vars
    /\ plugin /\ enabled /\ pc = "idle"
    /\ Len(sent) < MaxFrames
    /\ pc' = IF cmd_rx = 0 THEN "send" ELSE "drain"
    /\ at_start' = queue
    /\ paused_at_start' = (~is_streaming_active \/ tablet_addr = None)
    /\ drained' = <<>>
    /\ UNCHANGED <<plugin, enabled, tablet_addr, last_ack_elapsed, sequence, handles,
                   streaming_rate_hz, cmd_rx, xplm, nthreads, running, queue,
                   received, batch, sent, outcome>>

\* Fault seeded for DrainBeforeSend: the tick collects one message at most.
try_iter_collect_one ==
    /\ UNCHANGED codec_vars
    /\ pc = "drain"
    /\ IF queue # <<>>
       THEN /\ batch' = Append(batch, Head(queue))
            /\ queue' = Tail(queue)
       ELSE UNCHANGED <<batch, queue>>
    /\ pc' = "apply"
    /\ UNCHANGED <<plugin, enabled, tablet_addr, last_ack_elapsed, sequence, handles,
                   streaming_rate_hz, cmd_rx, xplm, nthreads, running, received, sent,
                   outcome, at_start, paused_at_start, drained>>

\* A drain that waits for a message with recv when the channel is empty.
try_iter_collect_waits ==
    /\ UNCHANGED codec_vars
    /\ pc = "drain"
    /\ queue # <<>>
    /\ batch' = Append(batch, Head(queue))
    /\ queue' = Tail(queue)
    /\ pc' = "apply"
    /\ UNCHANGED <<plugin, enabled, tablet_addr, last_ack_elapsed, sequence, handles,
                   streaming_rate_hz, cmd_rx, xplm, nthreads, running, received, sent,
                   outcome, at_start, paused_at_start, drained>>

\* drain_messages, rx.try_iter().collect(): one try_recv, which takes the
\* oldest queued message or finds the channel empty and ends the collection.
try_iter_collect ==
    /\ UNCHANGED codec_vars
    /\ pc = "drain"
    /\ IF queue # <<>>
       THEN /\ batch' = Append(batch, Head(queue))
            /\ queue' = Tail(queue)
            /\ pc' = pc
       ELSE /\ pc' = "apply"
            /\ UNCHANGED <<batch, queue>>
    /\ UNCHANGED <<plugin, enabled, tablet_addr, last_ack_elapsed, sequence, handles,
                   streaming_rate_hz, cmd_rx, xplm, nthreads, running, received, sent, outcome, at_start, paused_at_start, drained>>

\* drain_messages, the for loop: the next collected message is handled.
drain_messages ==
    /\ UNCHANGED codec_vars
    /\ pc = "apply"
    /\ IF batch # <<>>
       THEN /\ handle_internal_msg(Head(batch))
            /\ batch' = Tail(batch)
            /\ drained' = Append(drained, Head(batch))
            /\ pc' = pc
       ELSE /\ pc' = "send"
            /\ UNCHANGED <<batch, drained, tablet_addr, last_ack_elapsed, handles, xplm>>
    /\ UNCHANGED <<plugin, enabled, sequence, streaming_rate_hz, cmd_rx, nthreads,
                   running, queue, received, sent, outcome, at_start, paused_at_start>>

\* Fault seeded for SinglePeer: every frame goes to the first tablet.
frame_to_first(addr, seq) == [dst |-> "A1", seq |-> seq, ptype |-> PT_SimData]

\* The frame a sending tick hands to send_to: encode_sim_data(seq, snap) to addr.
frame(addr, seq) == [dst |-> addr, seq |-> seq, ptype |-> PT_SimData]

\* A tick that asks to be called once a second while it is paused.
tick_return_paused_slow(path, interval) ==
    IF path = "paused" THEN interval_of(1) ELSE interval

\* The value flight_loop_tick returns on the path it took: the interval it
\* computed, on each of the three.
tick_return(path, interval) ==
    CASE path = "paused" -> interval
      [] path = "sent" -> interval
      [] path = "nopeer" -> interval

\* A tick that keeps the sequence number of a frame send_to refused, so
\* that the next tick sends that frame again.
flight_loop_tick_retries(send_ok) ==
    /\ UNCHANGED codec_vars
    /\ pc = "send"
    /\ IF ~is_streaming_active
       THEN /\ outcome' = "paused"
            /\ xplm' = ret(xplm, "flight_loop_cb",
                           tick_return("paused", interval_of(streaming_rate_hz)))
            /\ UNCHANGED <<sequence, sent>>
       ELSE IF tablet_addr # None
       THEN /\ sent' = Append(sent, frame(tablet_addr, sequence))
            /\ sequence' = IF send_ok THEN WrapSucc(sequence) ELSE sequence
            /\ outcome' = "sent"
            /\ xplm' = ret(deliver(xplm, send_ok, frame(tablet_addr, sequence)),
                           "flight_loop_cb",
                           tick_return("sent", interval_of(streaming_rate_hz)))
       ELSE /\ outcome' = "nopeer"
            /\ xplm' = ret(xplm, "flight_loop_cb",
                           tick_return("nopeer", interval_of(streaming_rate_hz)))
            /\ UNCHANGED <<sequence, sent>>
    /\ pc' = "idle"
    /\ UNCHANGED <<plugin, enabled, tablet_addr, last_ack_elapsed, handles,
                   streaming_rate_hz, cmd_rx, nthreads, running, queue,
                   received, batch, at_start, paused_at_start, drained>>

\* A tick that takes its sequence number on entry, before it knows whether
\* it will send.
flight_loop_tick_counts_every_tick(send_ok) ==
    /\ UNCHANGED codec_vars
    /\ pc = "send"
    /\ sequence' = WrapSucc(sequence)
    /\ IF ~is_streaming_active
       THEN /\ outcome' = "paused"
            /\ xplm' = ret(xplm, "flight_loop_cb",
                           tick_return("paused", interval_of(streaming_rate_hz)))
            /\ UNCHANGED sent
       ELSE IF tablet_addr # None
       THEN /\ sent' = Append(sent, frame(tablet_addr, sequence))
            /\ outcome' = "sent"
            /\ xplm' = ret(deliver(xplm, send_ok, frame(tablet_addr, sequence)),
                           "flight_loop_cb",
                           tick_return("sent", interval_of(streaming_rate_hz)))
       ELSE /\ outcome' = "nopeer"
            /\ xplm' = ret(xplm, "flight_loop_cb",
                           tick_return("nopeer", interval_of(streaming_rate_hz)))
            /\ UNCHANGED sent
    /\ pc' = "idle"
    /\ UNCHANGED <<plugin, enabled, tablet_addr, last_ack_elapsed, handles,
                   streaming_rate_hz, cmd_rx, nthreads, running, queue,
                   received, batch, at_start, paused_at_start, drained>>

\* flight_loop_tick after drain_messages: the watchdog check and the send.
\* The interval is computed on entry from streaming_rate_hz, which no step
\* of a tick assigns.
\* send_ok is whether send_to returned Ok; its result is discarded.
flight_loop_tick(send_ok) ==
    /\ UNCHANGED codec_vars
    /\ pc = "send"
    /\ IF ~is_streaming_active
       THEN /\ outcome' = "paused"
            /\ xplm' = ret(xplm, "flight_loop_cb",
                           tick_return("paused", interval_of(streaming_rate_hz)))
            /\ UNCHANGED <<sequence, sent>>
       ELSE IF tablet_addr # None
       THEN /\ sent' = Append(sent, frame(tablet_addr, sequence))
            /\ sequence' = WrapSucc(sequence)
            /\ outcome' = "sent"
            /\ xplm' = ret(deliver(xplm, send_ok, frame(tablet_addr, sequence)),
                           "flight_loop_cb",
                           tick_return("sent", interval_of(streaming_rate_hz)))
       ELSE /\ outcome' = "nopeer"
            /\ xplm' = ret(xplm, "flight_loop_cb",
                           tick_return("nopeer", interval_of(streaming_rate_hz)))
            /\ UNCHANGED <<sequence, sent>>
    /\ pc' = "idle"
    /\ UNCHANGED <<plugin, enabled, tablet_addr, last_ack_elapsed, handles,
                   streaming_rate_hz, cmd_rx, nthreads, running, queue,
                   received, batch, at_start, paused_at_start, drained>>

(***************************************************************************)
(* Environment: the clock.                                                 *)
(***************************************************************************)
\* A second passes.  A tick takes far less than a second, so the clock does
\* not move while one is in progress.
Advance ==
    /\ UNCHANGED codec_vars
    /\ plugin /\ pc = "idle"
    /\ last_ack_elapsed' = IF last_ack_elapsed < MaxElapsed THEN last_ack_elapsed + 1
                                                              ELSE last_ack_elapsed
    /\ UNCHANGED <<plugin, enabled, tablet_addr, sequence, handles,
                   streaming_rate_hz, cmd_rx, xplm, nthreads, running, queue,
                   received, pc, batch, sent, outcome, at_start, paused_at_start, drained>>

Next ==
    \/ \E bind_ok, nonblocking_ok \in BOOLEAN : XPluginStart(bind_ok, nonblocking_ok)
    \/ XPluginEnable
    \/ XPluginDisable
    \/ \E t \in 1..MaxEnables, x \in Arrivals : command_server_recv(t, x[1], x[2])
    \/ \E t \in 1..MaxEnables : command_server_would_block(t)
    \/ \E t \in 1..MaxEnables : command_server_exit(t)
    \/ flight_loop_cb
    \/ try_iter_collect
    \/ drain_messages
    \/ \E send_ok \in BOOLEAN : flight_loop_tick(send_ok)
    \/ Advance

Spec == Init /\ [][Next]_vars

(***************************************************************************)
(* The direct path (plugin.rs, handle_incoming_packet).                    *)
(***************************************************************************)
DecodeTable == [b \in Datagrams \cup VariantPkts |-> decode_packet(b)]

\* Fault seeded for AckTransition: an Ack on the direct path replaces the peer
\* and leaves the last-ack time alone.
handle_incoming_packet_no_stamp(buf, from) ==
    /\ UNCHANGED codec_vars
    /\ plugin /\ pc = "idle"
    /\ received < MaxDatagrams
    /\ received' = received + 1
    /\ LET r == DecodeTable[buf]
       IN  IF r.ok /\ r.packet_type = PT_Ack
           THEN tablet_addr' = from
           ELSE tablet_addr' = tablet_addr
    /\ UNCHANGED <<plugin, enabled, last_ack_elapsed, sequence, handles, streaming_rate_hz,
                   cmd_rx, xplm, nthreads, running, queue, pc, batch, sent, outcome,
                   at_start, paused_at_start, drained>>

\* Fault seeded for CommandLeavesSession: a command counts as a heartbeat.
handle_incoming_packet_cmd_stamps(buf, from) ==
    /\ UNCHANGED codec_vars
    /\ plugin /\ pc = "idle"
    /\ received < MaxDatagrams
    /\ received' = received + 1
    /\ LET r == DecodeTable[buf]
       IN  IF r.ok /\ r.packet_type = PT_CommandJson
           THEN /\ xplm' = handle_command(xplm, handles, r.payload)
                /\ last_ack_elapsed' = 0
           ELSE UNCHANGED <<xplm, last_ack_elapsed>>
    /\ UNCHANGED <<plugin, enabled, tablet_addr, sequence, handles, streaming_rate_hz,
                   cmd_rx, nthreads, running, queue, pc, batch, sent, outcome,
                   at_start, paused_at_start, drained>>

\* Fault seeded for DropLeavesState: an Ack is accepted although its
\* checksum does not match.
handle_incoming_packet_trusts(buf, from) ==
    /\ UNCHANGED codec_vars
    /\ plugin /\ pc = "idle"
    /\ received < MaxDatagrams
    /\ received' = received + 1
    /\ LET r == DecodeTable[buf]
       IN  IF (r.ok /\ r.packet_type = PT_Ack) \/ (~r.ok /\ r.err = "BadChecksum")
           THEN /\ last_ack_elapsed' = 0
                /\ tablet_addr' = from
           ELSE UNCHANGED <<last_ack_elapsed, tablet_addr>>
    /\ UNCHANGED <<plugin, enabled, sequence, handles, streaming_rate_hz, cmd_rx, xplm,
                   nthreads, running, queue, pc, batch, sent, outcome, at_start,
                   paused_at_start, drained>>

\* Fault seeded for NeverAnswered: the direct path acknowledges an Ack to its
\* sender.
handle_incoming_packet_replies(buf, from) ==
    /\ UNCHANGED codec_vars
    /\ plugin /\ pc = "idle"
    /\ received < MaxDatagrams
    /\ received' = received + 1
    /\ LET r == DecodeTable[buf]
       IN  IF r.ok /\ r.packet_type = PT_Ack /\ Len(sent) < MaxFrames
           THEN /\ last_ack_elapsed' = 0
                /\ tablet_addr' = from
                /\ sent' = Append(sent, [dst |-> from, seq |-> <<0, 0>>, ptype |-> PT_Ack])
           ELSE UNCHANGED <<last_ack_elapsed, tablet_addr, sent>>
    /\ UNCHANGED <<plugin, enabled, sequence, handles, streaming_rate_hz, cmd_rx, xplm,
                   nthreads, running, queue, pc, batch, outcome, at_start,
                   paused_at_start, drained>>

\* A handler that takes an Ack or a Reload only when it is empty, as the
\* tablet builds it, and drops one that carries a payload.
handle_incoming_packet_wants_empty(buf, from) ==
    /\ UNCHANGED codec_vars
    /\ plugin /\ pc = "idle"
    /\ received < MaxDatagrams
    /\ received' = received + 1
    /\ LET r == DecodeTable[buf]
       IN  IF ~r.ok \/ (r.packet_type \in {PT_Ack, PT_Reload} /\ r.payload # <<>>)
           THEN /\ xplm' = log(xplm, <<"EFB: dropped packet", "payload">>)
                /\ UNCHANGED <<last_ack_elapsed, tablet_addr, handles>>
           ELSE IF r.packet_type = PT_Ack
           THEN /\ last_ack_elapsed' = 0
                /\ tablet_addr' = from
                /\ UNCHANGED <<handles, xplm>>
           ELSE IF r.packet_type = PT_CommandJson
           THEN /\ xplm' = handle_command(xplm, handles, r.payload)
                /\ UNCHANGED <<last_ack_elapsed, tablet_addr, handles>>
           ELSE IF r.packet_type = PT_Reload
           THEN /\ handles' = find_handles(xplm.d)
                /\ xplm' = find_handles_log(xplm, 1)
                /\ UNCHANGED <<last_ack_elapsed, tablet_addr>>
           ELSE UNCHANGED <<last_ack_elapsed, tablet_addr, handles, xplm>>
    /\ UNCHANGED <<plugin, enabled, sequence, streaming_rate_hz, cmd_rx, nthreads,
                   running, queue, pc, batch, sent, outcome, at_start, paused_at_start, drained>>

\* handle_incoming_packet(buf, from), called on the session between ticks.
handle_incoming_packet(buf, from) ==
    /\ UNCHANGED codec_vars
    /\ plugin /\ pc = "idle"
    /\ received < MaxDatagrams
    /\ received' = received + 1
    /\ LET r == DecodeTable[buf]
       IN  IF ~r.ok
           THEN /\ xplm' = log(xplm, <<"EFB: dropped packet", r.err>>)
                /\ UNCHANGED <<last_ack_elapsed, tablet_addr, handles>>
           ELSE IF r.packet_type = PT_Ack
           THEN /\ last_ack_elapsed' = 0
                /\ tablet_addr' = from
                /\ UNCHANGED <<handles, xplm>>
           ELSE IF r.packet_type = PT_CommandJson
           THEN /\ xplm' = handle_command(xplm, handles, r.payload)
                /\ UNCHANGED <<last_ack_elapsed, tablet_addr, handles>>
           ELSE IF r.packet_type = PT_Reload
           THEN /\ handles' = find_handles(xplm.d)
                /\ xplm' = find_handles_log(xplm, 1)
                /\ UNCHANGED <<last_ack_elapsed, tablet_addr>>
           ELSE UNCHANGED <<last_ack_elapsed, tablet_addr, handles, xplm>>
    /\ UNCHANGED <<plugin, enabled, sequence, streaming_rate_hz, cmd_rx, nthreads,
                   running, queue, pc, batch, sent, outcome, at_start, paused_at_start, drained>>

\* The session with callers of the direct path as well.
NextApi ==
    \/ Next
    \/ \E x \in Arrivals : handle_incoming_packet(x[1], x[2])

SpecApi == Init /\ [][NextApi]_vars

\* The buffers handed to handle_incoming_packet by a caller that holds the
\* session itself, as the unit tests do, each with the sender it names.
DirectInputs ==
    {<<AckPkt, "A1">>, <<AckPkt, "A2">>} \cup {<<b, "A1">> : b \in Datagrams \ {AckPkt}}

\* The session a unit test works on: made by new, with or without a call of
\* find_handles, no command server started; the test calls the tick as the
\* host's callback does.
InitDirect ==
    /\ plugin = TRUE /\ enabled = TRUE
    /\ tablet_addr = None /\ last_ack_elapsed = 0 /\ sequence = <<0, 0>>
    /\ handles \in {DefaultHandles, find_handles(InitialDatarefs)}
    /\ streaming_rate_hz = DEFAULT_HZ /\ cmd_rx = 0
    /\ xplm = [d |-> InitialDatarefs, writes |-> <<>>, logs |-> <<>>]
    /\ nthreads = 0 /\ running = {}
    /\ queue = <<>> /\ received = 0
    /\ pc = "idle" /\ batch = <<>> /\ sent = <<>> /\ outcome = "none"
    /\ at_start = <<>> /\ paused_at_start = FALSE /\ drained = <<>>
    /\ CodecIdle

NextDirect ==
    \/ \E x \in DirectInputs : handle_incoming_packet(x[1], x[2])
    \/ flight_loop_cb
    \/ \E send_ok \in BOOLEAN : flight_loop_tick(send_ok)
    \/ Advance

SpecDirect == InitDirect /\ [][NextDirect]_vars

\* The variant frames on the direct path: a session made by new, over a
\* capability that records every call, receives the variant frames from
\* either sender.
VariantInputs == {<<b, a>> : b \in VariantPkts, a \in {"A1", "A2"}}

InitVariant ==
    /\ plugin = TRUE /\ enabled = TRUE
    /\ tablet_addr = None /\ last_ack_elapsed = 0 /\ sequence = <<0, 0>>
    /\ handles = DefaultHandles
    /\ streaming_rate_hz = DEFAULT_HZ /\ cmd_rx = 0
    /\ xplm = [d |-> InitialDatarefs, writes |-> <<>>, logs |-> <<>>,
               calls |-> <<>>]
    /\ nthreads = 0 /\ running = {}
    /\ queue = <<>> /\ received = 0
    /\ pc = "idle" /\ batch = <<>> /\ sent = <<>> /\ outcome = "none"
    /\ at_start = <<>> /\ paused_at_start = FALSE /\ drained = <<>>
    /\ CodecIdle

NextVariant ==
    \/ \E x \in VariantInputs : handle_incoming_packet(x[1], x[2])
    \/ flight_loop_cb
    \/ \E send_ok \in BOOLEAN : flight_loop_tick(send_ok)
    \/ Advance

SpecVariant == InitVariant /\ [][NextVariant]_vars

\* The commands on their own: a session as a unit test makes it, over a
\* capability that records every call, receives CommandJson and Reload
\* datagrams on the direct path.  The simulator has all the datarefs (in one
\* case with NAV1 active and standby on the same frequency), or lacks the
\* COM1 standby or the NAV1 active frequency.
DatarefSets ==
    {InitialDatarefs,
     [InitialDatarefs EXCEPT ![PathOf["nav1_standby_hz"]] = 108000000],
     [p \in Paths \ {PathOf["com1_standby_hz"]} |-> InitialDatarefs[p]],
     [p \in Paths \ {PathOf["nav1_active_hz"]} |-> InitialDatarefs[p]]}

CommandInputs == {<<b, "A1">> : b \in CommandPkts \cup {ReloadPkt}}

InitCommand ==
    /\ plugin = TRUE /\ enabled = TRUE
    /\ tablet_addr = None /\ last_ack_elapsed = 0 /\ sequence = <<0, 0>>
    /\ \E d \in DatarefSets :
          /\ xplm = [d |-> d, writes |-> <<>>, logs |-> <<>>, calls |-> <<>>]
          /\ handles \in {DefaultHandles, find_handles(d)}
    /\ streaming_rate_hz = DEFAULT_HZ /\ cmd_rx = 0
    /\ nthreads = 0 /\ running = {}
    /\ queue = <<>> /\ received = 0
    /\ pc = "idle" /\ batch = <<>> /\ sent = <<>> /\ outcome = "none"
    /\ at_start = <<>> /\ paused_at_start = FALSE /\ drained = <<>>
    /\ CodecIdle

NextCommand == \E x \in CommandInputs : handle_incoming_packet(x[1], x[2])

SpecCommand == InitCommand /\ [][NextCommand]_vars

\* The plugin under a host that keeps what each entry point returned: the
\* library was loaded and no entry point has run yet.  The host calls the
\* entry points in any order, XPluginStop included.
InitHost ==
    /\ plugin = FALSE /\ enabled = FALSE
    /\ tablet_addr = None /\ last_ack_elapsed = 0 /\ sequence = <<0, 0>>
    /\ handles = DefaultHandles /\ streaming_rate_hz = DEFAULT_HZ /\ cmd_rx = 0
    /\ xplm = [d |-> InitialDatarefs, writes |-> <<>>, logs |-> <<>>,
               returned |-> <<"none", None>>]
    /\ nthreads = 0 /\ running = {}
    /\ queue = <<>> /\ received = 0
    /\ pc = "idle" /\ batch = <<>> /\ sent = <<>> /\ outcome = "none"
    /\ at_start = <<>> /\ paused_at_start = FALSE /\ drained = <<>>
    /\ CodecIdle

\* The datagrams that arrive under this host: an Ack, a command and a
\* damaged frame.
HostArrivals == {<<AckPkt, "A1">>, <<SwapCom1Pkt, "A2">>, <<BadChecksumPkt, "A2">>}

NextHost ==
    \/ \E bind_ok, nonblocking_ok \in BOOLEAN : XPluginStart(bind_ok, nonblocking_ok)
    \/ XPluginStop
    \/ XPluginEnable
    \/ XPluginDisable
    \/ \E t \in 1..MaxEnables, x \in HostArrivals : command_server_recv(t, x[1], x[2])
    \/ \E t \in 1..MaxEnables : command_server_would_block(t)
    \/ \E t \in 1..MaxEnables : command_server_exit(t)
    \/ flight_loop_cb
    \/ try_iter_collect
    \/ drain_messages
    \/ \E send_ok \in BOOLEAN : flight_loop_tick(send_ok)
    \/ Advance

SpecHost == InitHost /\ [][NextHost]_vars

\* The two paths side by side: a session that XPluginStart made and
\* XPluginEnable enabled once (handles looked up, one receive loop), and a
\* second session in the same state that takes the datagrams directly.
InitPaths ==
    /\ plugin = TRUE /\ enabled = TRUE
    /\ tablet_addr = None /\ last_ack_elapsed = 0 /\ sequence = <<0, 0>>
    /\ handles = find_handles(InitialDatarefs)
    /\ streaming_rate_hz = DEFAULT_HZ /\ cmd_rx = 1
    /\ xplm = [d |-> InitialDatarefs, writes |-> <<>>, logs |-> <<>>,
               direct |-> [d |-> InitialDatarefs, writes |-> <<>>, logs |-> <<>>,
                           tablet_addr |-> None,
                           handles |-> find_handles(InitialDatarefs)]]
    /\ nthreads = 1 /\ running = {1}
    /\ queue = <<>> /\ received = 0
    /\ pc = "idle" /\ batch = <<>> /\ sent = <<>> /\ outcome = "none"
    /\ at_start = <<>> /\ paused_at_start = FALSE /\ drained = <<>>
    /\ CodecIdle

\* The receive loop, the queue and the ticks of the enabled plugin.
NextPaths ==
    \/ \E x \in Arrivals : command_server_recv(1, x[1], x[2])
    \/ command_server_would_block(1)
    \/ flight_loop_cb
    \/ try_iter_collect
    \/ drain_messages
    \/ \E send_ok \in BOOLEAN : flight_loop_tick(send_ok)
    \/ Advance

SpecPaths == InitPaths /\ [][NextPaths]_vars

\* The same under a host that also disables and enables the plugin.
NextPathsHost ==
    \/ XPluginEnable
    \/ XPluginDisable
    \/ \E t \in 1..MaxEnables, x \in Arrivals : command_server_recv(t, x[1], x[2])
    \/ \E t \in 1..MaxEnables : command_server_would_block(t)
    \/ flight_loop_cb
    \/ try_iter_collect
    \/ drain_messages
    \/ \E send_ok \in BOOLEAN : flight_loop_tick(send_ok)
    \/ Advance

SpecPathsHost == InitPaths /\ [][NextPathsHost]_vars

\* The sending side on its own: a session made by new, ticked by a host
\* that keeps the returned intervals, over a network that keeps the frames
\* send_to accepted.  Acks and other datagrams reach the session directly.
SendInputs ==
    {<<AckPkt, "A1">>, <<AckPkt, "A2">>, <<ReloadPkt, "A1">>, <<SwapCom1Pkt, "A1">>,
     <<BadChecksumPkt, "A1">>}

InitSend ==
    /\ plugin = TRUE /\ enabled = TRUE
    /\ tablet_addr = None /\ last_ack_elapsed = 0 /\ sequence = <<0, 0>>
    /\ handles = DefaultHandles
    /\ streaming_rate_hz = DEFAULT_HZ /\ cmd_rx = 0
    /\ xplm = [d |-> InitialDatarefs, writes |-> <<>>, logs |-> <<>>,
               returned |-> <<"none", None>>, delivered |-> <<>>]
    /\ nthreads = 0 /\ running = {}
    /\ queue = <<>> /\ received = 0
    /\ pc = "idle" /\ batch = <<>> /\ sent = <<>> /\ outcome = "none"
    /\ at_start = <<>> /\ paused_at_start = FALSE /\ drained = <<>>
    /\ CodecIdle

NextSend ==
    \/ \E x \in SendInputs : handle_incoming_packet(x[1], x[2])
    \/ flight_loop_cb
    \/ \E send_ok \in BOOLEAN : flight_loop_tick(send_ok)
    \/ Advance

SpecSend == InitSend /\ [][NextSend]_vars

(***************************************************************************)
(* Snapshot capture (plugin.rs, read_snapshot).  A handle is named by its  *)
(* field of DataRefHandles; the capability's values are indexed by handle. *)
(***************************************************************************)
\* The field of DataRefHandles a snapshot field is read through.
HandleOf(f) ==
    CASE f = "tas_kts" -> "true_airspeed_ms"
      [] f = "rpm" -> "engine_rpm"
      [] f = "map_inhg" -> "manifold_inhg"
      [] OTHER -> f
AllHandles == {HandleOf(f) : f \in SnapshotFields}

\* The handles read with get_float_array into a local buffer, in the order
\* of the calls, and the snapshot fields that take element 0 of a buffer of
\* length 1.
ArrayReadOrder ==
    <<"egt_degc", "fuel_qty_kg", "bus_volts", "battery_amps", "suction_inhg",
      "engine_rpm", "manifold_inhg", "fuel_flow_kg_sec", "oil_press_psi",
      "oil_temp_degc">>
TrafficArrays == <<"traffic_lat", "traffic_lon", "traffic_ele_m">>
FirstOfBuffer ==
    {"bus_volts", "battery_amps", "suction_inhg", "rpm", "map_inhg",
     "fuel_flow_kg_sec", "oil_press_psi", "oil_temp_degc"}

\* The closures gf, gd, gi and gfa: the call made for handle hn of h (none
\* when it is None) ...
reads_of(h, getter, hn) == IF h[hn] = None THEN <<>> ELSE <<<<getter, hn>>>>
\* ... and the value: 0.0, 0 or the zeroed buffer when it is None.
gf(h, val, hn) == IF h[hn] = None THEN ZeroOf("f32") ELSE val[hn]
gd(h, val, hn) == IF h[hn] = None THEN ZeroOf("f64") ELSE val[hn]
gi(h, val, hn) == IF h[hn] = None THEN ZeroOf("i32") ELSE val[hn]
gfa(h, val, hn, n) == IF h[hn] = None THEN [k \in 1..n |-> ZeroOf("f32")] ELSE val[hn]

\* (v as usize).min(20) as u8 of an i32: a negative v is a huge usize.
clamp_count(v) == IF v < 0 \/ v > 20 THEN 20 ELSE v

\* x * 1.943_84 in f32, for the readings of the model: 0.0 and 1.0.
to_kts(x) ==
    CASE x = <<0, 0>> -> <<0, 0>>
      [] x = <<16256, 0>> -> <<16376, 53184>>

\* The getter of a snapshot field that the struct literal reads directly.
GetterOf(f) ==
    CASE TypeOf(f) = "f64" -> "get_double"
      [] TypeOf(f) = "f32" -> "get_float"
      [] OTHER -> "get_int"

\* The fields the struct literal reads directly, in its order.
DirectFields ==
    SelectSeq([i \in 1..Len(SimSnapshot) |-> SimSnapshot[i][1]],
              LAMBDA f : /\ ArrayLen(f) = 0
                         /\ f \notin FirstOfBuffer \cup {"tas_kts", "traffic_count"})

RECURSIVE ConcatAll(_)
ConcatAll(ss) == IF ss = <<>> THEN <<>> ELSE Head(ss) \o ConcatAll(Tail(ss))

\* A capture that reads through every handle, None or not (None reads as
\* handle 0, whatever dataref that is).
read_snapshot_reads_all(h, val) ==
    [snapshot |-> [f \in SnapshotFields |->
                      IF TypeOf(f) = "bool" THEN val[HandleOf(f)] # 0
                      ELSE IF f = "traffic_count" THEN clamp_count(val[HandleOf(f)])
                      ELSE IF f = "tas_kts" THEN to_kts(val[HandleOf(f)])
                      ELSE IF f \in FirstOfBuffer THEN val[HandleOf(f)][1]
                      ELSE val[HandleOf(f)]],
     reads |-> [i \in 1..Len(SimSnapshot) |-> <<"get", HandleOf(SimSnapshot[i][1])>>]]

\* read_snapshot with the cached handles h over the capability values val:
\* the snapshot and the capability calls made, in order.
read_snapshot(h, val) ==
    LET traffic_count == clamp_count(gi(h, val, "traffic_count"))
        traffic(hn) ==
            IF traffic_count > 0 THEN gfa(h, val, hn, 20)
            ELSE [k \in 1..20 |-> ZeroOf("f32")]
        field(f) ==
            CASE f = "traffic_count" -> traffic_count
              [] f \in {"traffic_lat", "traffic_lon", "traffic_ele_m"} -> traffic(f)
              [] f = "tas_kts" -> to_kts(gf(h, val, "true_airspeed_ms"))
              [] f \in FirstOfBuffer -> gfa(h, val, HandleOf(f), 1)[1]
              [] ArrayLen(f) > 0 -> gfa(h, val, f, ArrayLen(f))
              [] TypeOf(f) = "f64" -> gd(h, val, f)
              [] TypeOf(f) = "f32" -> gf(h, val, f)
              [] TypeOf(f) = "bool" -> gi(h, val, f) # 0
              [] OTHER -> gi(h, val, f)
    IN  [snapshot |-> [f \in SnapshotFields |-> field(f)],
         reads |->
            ConcatAll([i \in 1..Len(ArrayReadOrder) |->
                          reads_of(h, "get_float_array", ArrayReadOrder[i])])
            \o reads_of(h, "get_int", "traffic_count")
            \o (IF traffic_count > 0
                THEN ConcatAll([i \in 1..3 |->
                                   reads_of(h, "get_float_array", TrafficArrays[i])])
                ELSE <<>>)
            \o reads_of(h, "get_float", "true_airspeed_ms")
            \o ConcatAll([i \in 1..Len(DirectFields) |->
                             reads_of(h, GetterOf(DirectFields[i]), DirectFields[i])])]

\* The reading of handle hn in a simulator where every dataref holds 1 (1.0,
\* buffers of 1.0) and there are n traffic targets.
SimValues(n) ==
    [hn \in AllHandles |->
        LET f == CHOOSE g \in SnapshotFields : HandleOf(g) = hn
        IN  IF hn = "traffic_count" THEN n
            ELSE IF ArrayLen(f) > 0 THEN [k \in 1..ArrayLen(f) |-> <<16256, 0>>]
            ELSE IF f \in FirstOfBuffer THEN <<<<16256, 0>>>>
            ELSE IF TypeOf(f) = "f64" THEN <<16368, 0, 0, 0>>
            ELSE IF TypeOf(f) = "f32" THEN <<16256, 0>>
            ELSE 1]

\* The handles cached when exactly the datarefs R resolved.
Cached(R) == [hn \in AllHandles |-> IF hn \in R THEN hn ELSE None]

\* The sets of resolved handles: all, none, all but one and one alone.
ResolvedSets ==
    {AllHandles, {}} \cup {AllHandles \ {hn} : hn \in AllHandles}
                     \cup {{hn} : hn \in AllHandles}
                     \cup {{"traffic_count", hn} : hn \in AllHandles}
TrafficCounts == {0, 2, 25, -1}

\* A session whose handles and simulator are any of the above, before it
\* captures a snapshot.
InitCapture ==
    /\ plugin = TRUE /\ enabled = TRUE
    /\ tablet_addr = None /\ last_ack_elapsed = 0 /\ sequence = <<0, 0>>
    /\ \E R \in ResolvedSets, n \in TrafficCounts :
          /\ handles = Cached(R)
          /\ xplm = [d |-> SimValues(n), writes |-> <<>>, logs |-> <<>>, calls |-> <<>>]
    /\ streaming_rate_hz = DEFAULT_HZ /\ cmd_rx = 0
    /\ nthreads = 0 /\ running = {}
    /\ queue = <<>> /\ received = 0
    /\ pc = "idle" /\ batch = <<>> /\ sent = <<>> /\ outcome = "none"
    /\ at_start = <<>> /\ paused_at_start = FALSE /\ drained = <<>>
    /\ CodecIdle

\* read_snapshot is called; the snapshot is what the encoder is given.
Capture ==
    /\ codec_pc = "idle"
    /\ LET r == read_snapshot(handles, xplm.d)
       IN  /\ encoded' = [snapshot |-> r.snapshot]
           /\ xplm' = [xplm EXCEPT !.calls = @ \o r.reads]
    /\ codec_pc' = "captured"
    /\ UNCHANGED <<plugin, enabled, tablet_addr, last_ack_elapsed, sequence, handles,
                   streaming_rate_hz, cmd_rx, nthreads, running, queue, received, pc,
                   batch, sent, outcome, at_start, paused_at_start, drained>>
    /\ UNCHANGED <<wire, edits, decoded, snap_out>>

SpecCapture == InitCapture /\ [][Capture]_vars

\* The steps of a tick.  The host calls the registered callback every
\* 1 / streaming_rate_hz seconds while the plugin is enabled.
Tick ==
    \/ flight_loop_cb \/ try_iter_collect \/ drain_messages
    \/ \E send_ok \in BOOLEAN : flight_loop_tick(send_ok)

FairSpec == Spec /\ WF_vars(Tick)

\* The steps of a tick that is under way.
TickStep ==
    \/ try_iter_collect \/ drain_messages
    \/ \E send_ok \in BOOLEAN : flight_loop_tick(send_ok)

\* Ticks on a session with a command server (started by XPluginEnable) and
\* on one without (made by new and ticked, as the unit tests do), the host
\* and the receive loops doing what they like; only the tick is sure to get
\* its turn.
InitTick == InitLoaded \/ InitDirect

FairSpecTick == InitTick /\ [][NextHost]_vars /\ WF_vars(Tick)

(***************************************************************************)
(* The codec on its own (efb-protocol): a frame is encoded, the buffer is  *)
(* altered or cut short on its way, and the receiver decodes it.           *)
(***************************************************************************)
\* The sequence numbers and payloads frames are built from.
CodecSeqs == {<<0, 1>>, <<65535, 65535>>}
CodecPayloads == {<<>>, <<1, 2, 3, 4>>}
PacketTypes == {PT_SimData, PT_CommandJson, PT_Ack, PT_Reload}

\* The longest buffer that is altered more than once.
SmallLen == HEADER_LEN + 4

\* build_packet(seq, ptype, payload) is called.
Encode(seq, ptype, payload) ==
    /\ codec_pc = "idle"
    /\ encoded' = [seq |-> seq, ptype |-> ptype, payload |-> payload]
    /\ wire' = build_packet(seq, ptype, payload)
    /\ codec_pc' = "encoded"
    /\ UNCHANGED <<edits, decoded, snap_out>>
    /\ UNCHANGED plugin_vars

\* The snapshots frames are built from.
SnapshotInputs == {SimSnapshot_default, make_snap, distinct_snap}

\* encode_sim_data(seq, snapshot) is called.
EncodeSimData(seq, snapshot) ==
    /\ codec_pc = "idle"
    /\ encoded' = [seq |-> seq, ptype |-> PT_SimData,
                   payload |-> serialize_snapshot(snapshot),
                   snapshot |-> snapshot]
    /\ wire' = encode_sim_data(seq, snapshot)
    /\ codec_pc' = "encoded"
    /\ UNCHANGED <<edits, decoded, snap_out>>
    /\ UNCHANGED plugin_vars

\* The ways a byte is changed: "flip" is b ^ 0xFF, "bit" is b ^ 0x01, and
\* "type" makes a packet type byte another packet type.
AlteredTo(how, b) ==
    CASE how = "flip" -> 255 - b
      [] how = "bit" -> IF b % 2 = 0 THEN b + 1 ELSE b - 1
      [] how = "type" -> (b % 4) + 1

\* The byte at offset at (from 0) of the buffer is changed.  Offsets are
\* changed in increasing order.
Alter(at, how) ==
    /\ codec_pc = "encoded"
    /\ Len(edits) < MaxEdits
    /\ Len(wire) > SmallLen => edits = <<>>
    /\ at \in 0..(Len(wire) - 1)
    /\ edits # <<>> => (edits[Len(edits)].op = "set" /\ edits[Len(edits)].at < at)
    /\ how = "type" => at = 6
    /\ wire' = [wire EXCEPT ![at + 1] = AlteredTo(how, wire[at + 1])]
    /\ edits' = Append(edits, [op |-> "set", at |-> at, to |-> AlteredTo(how, wire[at + 1])])
    /\ UNCHANGED <<codec_pc, encoded, decoded, snap_out>>
    /\ UNCHANGED plugin_vars

\* Only the first n bytes of the buffer arrive.
Truncate(n) ==
    /\ codec_pc = "encoded"
    /\ Len(edits) < MaxEdits
    /\ Len(wire) > SmallLen => edits = <<>>
    /\ n \in 0..(Len(wire) - 1)
    /\ edits # <<>> => edits[Len(edits)].op = "set"
    /\ wire' = SubSeq(wire, 1, n)
    /\ edits' = Append(edits, [op |-> "truncate", len |-> n])
    /\ UNCHANGED <<codec_pc, encoded, decoded, snap_out>>
    /\ UNCHANGED plugin_vars

\* decode_packet(buf) is called on the buffer.
Decode ==
    /\ codec_pc = "encoded"
    /\ decoded' = decode_packet(wire)
    /\ codec_pc' = "decoded"
    /\ UNCHANGED <<encoded, wire, edits, snap_out>>
    /\ UNCHANGED plugin_vars

\* decode_sim_data(payload) is called on the payload of a decoded SimData
\* frame.
DecodeSimData ==
    /\ codec_pc = "decoded"
    /\ decoded.ok
    /\ decoded.packet_type = PT_SimData
    /\ snap_out' = decode_sim_data(decoded.payload)
    /\ codec_pc' = "read"
    /\ UNCHANGED <<encoded, wire, edits, decoded>>
    /\ UNCHANGED plugin_vars

\* The length of a serialized snapshot.
RecordLen == Len(serialize_snapshot(SimSnapshot_default))

\* decode_sim_data(payload) is called on the first n bytes of a serialized
\* snapshot.
DecodeSimDataPrefix(n) ==
    /\ codec_pc = "encoded"
    /\ "snapshot" \in DOMAIN encoded
    /\ edits = <<>>
    /\ n \in 0..Len(encoded.payload)
    /\ edits' = <<[op |-> "payload", len |-> n]>>
    /\ snap_out' = decode_sim_data(SubSeq(encoded.payload, 1, n))
    /\ codec_pc' = "read"
    /\ UNCHANGED <<encoded, wire, decoded>>
    /\ UNCHANGED plugin_vars

NextCodec ==
    \/ \E seq \in CodecSeqs, ptype \in PacketTypes, payload \in CodecPayloads :
          Encode(seq, ptype, payload)
    \/ \E at \in 0..(SmallLen - 1), how \in {"flip", "bit", "type"} : Alter(at, how)
    \/ \E n \in 0..(SmallLen - 1) : Truncate(n)
    \/ Decode
    \/ \E seq \in CodecSeqs, snapshot \in SnapshotInputs : EncodeSimData(seq, snapshot)
    \/ DecodeSimData
    \/ \E n \in 0..RecordLen : DecodeSimDataPrefix(n)

\* The bytes that follow a frame or a record in a longer buffer.
Tails == {<<0>>, <<255>>, <<1, 2, 3>>}

\* The buffer handed to decode_packet holds the frame and then tail.
Extend(tail) ==
    /\ codec_pc = "encoded"
    /\ edits = <<>>
    /\ wire' = wire \o tail
    /\ edits' = <<[op |-> "extend", bytes |-> tail]>>
    /\ UNCHANGED <<codec_pc, encoded, decoded, snap_out>>
    /\ UNCHANGED plugin_vars

\* decode_sim_data(payload) is called on a serialized snapshot followed by
\* tail.
DecodeSimDataExtended(tail) ==
    /\ codec_pc = "encoded"
    /\ "snapshot" \in DOMAIN encoded
    /\ edits = <<>>
    /\ edits' = <<[op |-> "payload+", bytes |-> tail]>>
    /\ snap_out' = decode_sim_data(encoded.payload \o tail)
    /\ codec_pc' = "read"
    /\ UNCHANGED <<encoded, wire, decoded>>
    /\ UNCHANGED plugin_vars

\* The codec on buffers longer than what they hold.
NextTrailing ==
    \/ \E seq \in CodecSeqs, ptype \in PacketTypes, payload \in CodecPayloads :
          Encode(seq, ptype, payload)
    \/ \E seq \in CodecSeqs, snapshot \in SnapshotInputs : EncodeSimData(seq, snapshot)
    \/ \E tail \in Tails : Extend(tail)
    \/ Decode
    \/ DecodeSimData
    \/ \E tail \in Tails : DecodeSimDataExtended(tail)

SpecTrailing == InitLoaded /\ [][NextTrailing]_vars

SpecCodec == InitLoaded /\ [][NextCodec]_vars

(***************************************************************************)
(* Properties.                                                             *)
(***************************************************************************)
\* The watchdog check and send of a tick.
SendStep == pc = "send" /\ pc' = "idle"

\* The for loop of drain_messages handles a message of the given kind.
ApplyStep(kind) ==
    pc = "apply" /\ batch # <<>> /\ Head(batch).kind = kind /\ batch' = Tail(batch)

\* C1 (watchdog gate): a tick whose watchdog check finds more than
\* WATCHDOG_TIMEOUT seconds elapsed since the last Ack sends nothing and
\* returns; at exactly WATCHDOG_TIMEOUT seconds (or less) the session still
\* counts as active, so a tick with a known peer sends one frame.
WatchdogGate ==
    [][SendStep =>
         /\ last_ack_elapsed > WATCHDOG_TIMEOUT => sent' = sent
         /\ (last_ack_elapsed <= WATCHDOG_TIMEOUT /\ tablet_addr # None)
                => Len(sent') = Len(sent) + 1]_vars

\* A tick of a session with a known peer has just been stopped by the watchdog.
WatchdogGateWitness ==
    /\ pc = "idle" /\ outcome = "paused"
    /\ tablet_addr # None /\ last_ack_elapsed > WATCHDOG_TIMEOUT

\* C2 (Ack transition): processing a valid Ack, on the direct path or from
\* the queue, from any prior state, makes the peer the Ack's sender and the
\* last-ack time the current time, so that is_streaming_active holds
\* immediately afterwards.
AckTransition ==
    [][/\ \A x \in Arrivals :
            (/\ pc = "idle" /\ received' = received + 1 /\ queue' = queue
             /\ DecodeTable[x[1]].ok
             /\ DecodeTable[x[1]].packet_type = PT_Ack
             /\ handle_incoming_packet(x[1], x[2]))
                => (tablet_addr' = x[2] /\ last_ack_elapsed' = 0 /\ is_streaming_active')
       /\ ApplyStep("Ack")
                => (/\ tablet_addr' = Head(batch).addr
                    /\ last_ack_elapsed' = 0
                    /\ is_streaming_active')]_vars

\* The last tick was stopped by the watchdog with peer A1, and since then an
\* Ack from A2 has been processed on the direct path.
AckTransitionWitness ==
    /\ pc = "idle" /\ outcome = "paused"
    /\ Len(sent) = 1 /\ sent[1].dst = "A1"
    /\ tablet_addr = "A2" /\ last_ack_elapsed = 0 /\ is_streaming_active

\* C3 (single peer): a frame is sent only when a peer is known, which is
\* never before an Ack has been processed; the peer changes only when an Ack
\* is processed, to that Ack's sender; and every frame goes to the peer of
\* the moment, the sender of the most recently processed Ack.
SinglePeer ==
    [][/\ sent' # sent =>
            /\ tablet_addr # None
            /\ Len(sent') = Len(sent) + 1
            /\ sent'[Len(sent')].dst = tablet_addr
            /\ tablet_addr' = tablet_addr
       /\ ApplyStep("Ack") => tablet_addr' = Head(batch).addr
       /\ tablet_addr' # tablet_addr => ApplyStep("Ack")]_vars

\* The peer has been replaced: a frame went to A1, then one to A2.
SinglePeerWitness ==
    /\ Len(sent) = 2 /\ sent[1].dst = "A1" /\ sent[2].dst = "A2"
    /\ tablet_addr = "A2"

\* b is a + 1 modulo 2^32, on <<high 16 bits, low 16 bits>>.
IsNext32(a, b) ==
    /\ b[2] = (a[2] + 1) % U16Mod
    /\ b[1] = (IF a[2] = U16Mod - 1 THEN (a[1] + 1) % U16Mod ELSE a[1])

\* C4 (sequence numbers): each frame's sequence number is the previous
\* frame's plus one modulo 2^32; after 2^32 - 1 comes 0, and the tick that
\* wraps sends like any other.
SequenceIncrements ==
    \A i \in 1..(Len(sent) - 1) : IsNext32(sent[i].seq, sent[i + 1].seq)

\* The counter has wrapped: frame 2^32 - 1 was followed by frame 0.
SequenceIncrementsWitness ==
    /\ Len(sent) = 2
    /\ sent[1].seq = <<65535, 65535>> /\ sent[2].seq = <<0, 0>>
\* a is an initial segment of b.
IsPrefix(a, b) == Len(a) <= Len(b) /\ SubSeq(b, 1, Len(a)) = a

\* The positions of the Acks in a sequence of messages, and the last Ack.
AckIndices(msgs) == {i \in 1..Len(msgs) : msgs[i].kind = "Ack"}
LastAck(msgs) == msgs[CHOOSE i \in AckIndices(msgs) : \A j \in AckIndices(msgs) : j <= i]

\* C5 (drain before send) as stated: when a tick reaches its watchdog check
\* it has handled every message that was queued when it began, in arrival
\* order; consequently every Ack that was queued when a tick of a paused or
\* peerless session began makes that tick send a frame to that Ack's sender.
DrainBeforeSendEveryAck ==
    [][SendStep =>
         /\ batch = <<>>
         /\ IsPrefix(at_start, drained)
         /\ paused_at_start =>
              \A i \in AckIndices(at_start) :
                  /\ Len(sent') = Len(sent) + 1
                  /\ sent'[Len(sent')].dst = at_start[i].addr]_vars

\* C5 amended: as above, but the frame goes to the sender of the last Ack
\* the tick has handled.
DrainBeforeSend ==
    [][SendStep =>
         /\ batch = <<>>
         /\ IsPrefix(at_start, drained)
         /\ (paused_at_start /\ AckIndices(at_start) # {}) =>
                  /\ Len(sent') = Len(sent) + 1
                  /\ sent'[Len(sent')].dst = LastAck(drained).addr]_vars

\* A tick of a peerless session found Acks from A1 and from A2 queued and
\* sent the first frame of the session to A2.
DrainBeforeSendWitness ==
    /\ pc = "idle" /\ outcome = "sent" /\ paused_at_start
    /\ Len(at_start) = 2
    /\ at_start[1].kind = "Ack" /\ at_start[1].addr = "A1"
    /\ at_start[2].kind = "Ack" /\ at_start[2].addr = "A2"
    /\ Len(sent) = 1 /\ sent[1].dst = "A2" /\ sent[1].seq = <<0, 0>>
\* A valid Ack has been received and forwarded, and no tick has drained it yet.
AckPending == \E i \in 1..Len(queue) : queue[i].kind = "Ack"

\* C6 (watchdog recovery): a tick stopped by the watchdog leaves the peer
\* and the sequence counter as they are; and if ticks keep occurring, then
\* whenever a paused session has received a valid Ack, a further frame is
\* eventually sent, nothing else being required.
WatchdogRecovery ==
    /\ [][(SendStep /\ ~is_streaming_active)
              => (tablet_addr' = tablet_addr /\ sequence' = sequence)]_vars
    /\ \A n \in 0..(MaxFrames - 1) :
          []<>(pc # "idle")
              => ((/\ ~is_streaming_active /\ tablet_addr # None
                   /\ AckPending /\ Len(sent) = n) ~> (Len(sent) > n))

\* What the receive loop is to enqueue for an arrival x = <<datagram, sender>>.
Forwarded(x) ==
    LET r == DecodeTable[x[1]]
    IN  IF ~r.ok THEN <<>>
        ELSE IF r.packet_type = PT_Ack THEN <<[kind |-> "Ack", addr |-> x[2]]>>
        ELSE IF r.packet_type = PT_CommandJson THEN <<[kind |-> "Command", payload |-> r.payload]>>
        ELSE IF r.packet_type = PT_Reload THEN <<[kind |-> "Reload"]>>
        ELSE <<>>

\* C7 (receive-loop classification): whichever receive loop reads a datagram,
\* the queue the tick drains gains exactly one message, Ack(sender),
\* Command(payload) or Reload, when the datagram decodes as an Ack,
\* CommandJson or Reload, and gains nothing otherwise.
Classification ==
    [][\A t \in 1..MaxEnables, x \in Arrivals :
          command_server_recv(t, x[1], x[2]) => queue' = queue \o Forwarded(x)]_vars

\* The steps of the receive loops.
RecvLoopStep ==
    \E t \in 1..MaxEnables :
       \/ \E x \in Arrivals : command_server_recv(t, x[1], x[2])
       \/ command_server_would_block(t)
       \/ command_server_exit(t)

\* The session fields as stored: the last-ack timestamp moves only when the
\* elapsed time is reset, not when the clock advances.
StampMoved == last_ack_elapsed' = 0 /\ last_ack_elapsed # 0
SessionChanged ==
    \/ <<tablet_addr, sequence, handles, streaming_rate_hz>>'
          # <<tablet_addr, sequence, handles, streaming_rate_hz>>
    \/ StampMoved

\* C8 (single mutator): no step of a receive loop changes the peer address,
\* the last-ack timestamp, the sequence counter, the streaming rate or the
\* cached handles, however it interleaves with ticks; the session changes
\* only in the tick (handling a drained message, sending a frame) or in the
\* host's start and enable calls, and a received Ack reaches it only as a
\* queued message.
SingleMutator ==
    [][/\ RecvLoopStep => UNCHANGED session
       /\ SessionChanged =>
             \/ pc = "apply" /\ batch # <<>> /\ batch' = Tail(batch)
             \/ SendStep
             \/ ~plugin /\ plugin'
             \/ ~enabled /\ enabled']_vars

\* A receive loop has forwarded an Ack from A2 while a tick was handling its
\* batch; the session still has the peer the tick is about to use.
SingleMutatorWitness ==
    /\ pc = "apply" /\ tablet_addr = "A1"
    /\ queue = <<[kind |-> "Ack", addr |-> "A2"]>>
    /\ drained # <<>>

\* C9 (one receive loop): at most one receive loop reads the socket, and it
\* forwards to the queue the tick drains.
OneReceiveLoop ==
    /\ Cardinality(running) <= 1
    /\ \A t \in running : t = cmd_rx

\* The messages forwarded and not yet handled, oldest first.
pending == batch \o queue

\* C10 (queue discipline): the messages forwarded and not yet handled change
\* only by gaining a message at the end or by the tick handling the oldest
\* one, so each is handled once, in order, and none is lost.
QueueDiscipline ==
    [][\/ pending' = pending
       \/ Len(pending') = Len(pending) + 1 /\ IsPrefix(pending, pending')
       \/ /\ pc = "apply" /\ batch # <<>>
          /\ drained' = Append(drained, Head(pending))
          /\ pending' = Tail(pending)]_vars
\* A valid datagram of the given packet type is handled on the direct path.
DirectStep(ptype) ==
    /\ pc = "idle" /\ received' = received + 1 /\ queue' = queue
    /\ \E x \in Arrivals :
          /\ DecodeTable[x[1]].ok
          /\ DecodeTable[x[1]].packet_type = ptype
          /\ handle_incoming_packet(x[1], x[2])

\* C11 (Reload): handling a Reload, on the direct path or from the queue,
\* looks every cached handle up again and leaves the peer address, the
\* last-ack time, the sequence counter and the streaming rate as they are;
\* in particular it does not refresh the watchdog.
ReloadOnlyReresolves ==
    [][(DirectStep(PT_Reload) \/ ApplyStep("Reload")) =>
          /\ handles' = [f \in HandleFields |->
                            IF PathOf[f] \in DOMAIN xplm.d THEN PathOf[f] ELSE None]
          /\ UNCHANGED <<tablet_addr, last_ack_elapsed, sequence, streaming_rate_hz>>]_vars

\* Before any enable, a Reload on the direct path has resolved the handles
\* of a session whose watchdog has expired, and the session is still paused.
ReloadOnlyReresolvesWitness ==
    /\ plugin /\ nthreads = 0
    /\ handles # DefaultHandles
    /\ handles["com1_active_hz"] = PathOf["com1_active_hz"]
    /\ ~is_streaming_active
    /\ tablet_addr = None /\ sequence = <<0, 0>>

\* C15 (inbound traffic is never answered): the only transmissions are the
\* SimData frames a tick sends to the peer of the moment.  Every step that
\* transmits is the send step of a tick, so no step that receives or
\* handles an inbound datagram, valid or not, transmits anything.
NeverAnswered ==
    [][sent' # sent =>
          /\ SendStep
          /\ UNCHANGED <<received, queue, batch, xplm, tablet_addr,
                         last_ack_elapsed, handles>>
          /\ sent' = Append(sent, [dst |-> tablet_addr, seq |-> sequence,
                                   ptype |-> PT_SimData])]_vars

\* A datagram has been dropped with a log entry and an Ack from A2 has been
\* handled; the one transmission so far is the frame a tick sent to A2.
NeverAnsweredWitness ==
    /\ received = 2 /\ xplm.logs # <<>> /\ tablet_addr = "A2"
    /\ pc = "idle" /\ outcome = "sent"
    /\ Len(sent) = 1 /\ sent[1].dst = "A2" /\ sent[1].ptype = PT_SimData
\* C12 (CommandJson): handling a CommandJson datagram, whether its payload
\* parses and applies or not, leaves the peer address, the last-ack time,
\* the sequence counter, the streaming rate and the cached handles as they
\* are; so with commands only and no Ack, the tick that finds more than
\* WATCHDOG_TIMEOUT seconds elapsed sends nothing.
CommandLeavesSession ==
    [][/\ \A x \in DirectInputs :
             (x[1] \in CommandPkts /\ handle_incoming_packet(x[1], x[2]))
                 => UNCHANGED <<tablet_addr, last_ack_elapsed, sequence,
                                streaming_rate_hz, handles>>
       /\ (SendStep /\ last_ack_elapsed > WATCHDOG_TIMEOUT)
             => (outcome' = "paused" /\ sent' = sent)]_vars

\* A session acknowledged once by A2 has since handled a command that was
\* applied, and the watchdog has paused it all the same.
CommandLeavesSessionWitness ==
    /\ pc = "idle" /\ outcome = "paused" /\ tablet_addr = "A2"
    /\ received = 2 /\ xplm.writes # <<>> /\ xplm.logs = <<>>
    /\ nthreads = 0

\* The buffers that are dropped: decode_packet fails, or the datagram is a
\* valid inbound SimData.
Dropped(buf) == ~DecodeTable[buf].ok \/ DecodeTable[buf].packet_type = PT_SimData

\* C13 (drop): a datagram that fails to decode, with whatever ProtocolError,
\* or that is a valid inbound SimData, leaves the session as it is and makes
\* no capability write; at most a log entry is added.
DropLeavesState ==
    [][\A x \in DirectInputs :
          (Dropped(x[1]) /\ handle_incoming_packet(x[1], x[2])) =>
              /\ UNCHANGED session
              /\ xplm'.d = xplm.d /\ xplm'.writes = xplm.writes
              /\ \/ xplm'.logs = xplm.logs
                 \/ /\ Len(xplm'.logs) = Len(xplm.logs) + 1
                    /\ IsPrefix(xplm.logs, xplm'.logs)]_vars

\* A truncated datagram and one with a bad checksum have been dropped, each
\* with its log entry, and the session is as new was made it.
DropLeavesStateWitness ==
    /\ xplm.logs = <<<<"EFB: dropped packet", "TruncatedPayload">>,
                     <<"EFB: dropped packet", "BadChecksum">>>>
    /\ tablet_addr = None /\ sequence = <<0, 0>> /\ xplm.writes = <<>>
    /\ nthreads = 0

ProtocolError ==
    {"TooShort", "BadMagic", "BadVersion", "UnknownPacketType", "PayloadTooLarge",
     "TruncatedPayload", "BadChecksum"}

\* C14 (dispatch is total): whatever the buffer and the sender,
\* handle_incoming_packet can be called and completes, and the buffer is
\* either exactly one valid message (Ack, CommandJson, Reload, SimData) or a
\* datagram dropped with a ProtocolError.
DispatchTotal ==
    \A x \in DirectInputs :
        /\ (plugin /\ pc = "idle" /\ received < MaxDatagrams)
               => ENABLED handle_incoming_packet(x[1], x[2])
        /\ LET r == DecodeTable[x[1]]
           IN  (r.ok /\ r.packet_type \in {PT_Ack, PT_CommandJson, PT_Reload, PT_SimData})
                  # (~r.ok /\ r.err \in ProtocolError)

\* The empty buffer and the buffer of zeros have been handled, each dropped
\* with its error.
DispatchTotalWitness ==
    /\ xplm.logs = <<<<"EFB: dropped packet", "TooShort">>,
                     <<"EFB: dropped packet", "BadMagic">>>>
    /\ nthreads = 0 /\ pc = "idle"
\* The codec checks, in the order 1..7 of the claim, stated on the bytes
\* of the buffer; check i is looked at only when the checks before it pass.
CheckFails(buf, i) ==
    CASE i = 1 -> Len(buf) < 17
      [] i = 2 -> SubSeq(buf, 1, 4) # <<69, 35, 177, 239>>
      [] i = 3 -> SubSeq(buf, 5, 6) # <<1, 0>>
      [] i = 4 -> buf[7] \notin 1..4
      [] i = 5 -> buf[8] + 256 * buf[9] > 65535
      [] i = 6 -> Len(buf) < 17 + buf[8] + 256 * buf[9]
      [] i = 7 -> crc32(SubSeq(buf, 18, 17 + buf[8] + 256 * buf[9]))
                      # <<buf[16] + 256 * buf[17], buf[14] + 256 * buf[15]>>

RECURSIVE FirstFailing(_, _)
FirstFailing(buf, i) ==
    IF i > 7 THEN 0
    ELSE IF CheckFails(buf, i) THEN i
    ELSE FirstFailing(buf, i + 1)

CheckError ==
    <<"TooShort", "BadMagic", "BadVersion", "UnknownPacketType",
      "PayloadTooLarge", "TruncatedPayload", "BadChecksum">>

\* C16: decode_packet returns the error of the first check that fails in
\* the order length, magic, version, packet type (with the offending byte),
\* payload_len, truncation, checksum, and succeeds exactly when none fails.
CheckOrder ==
    codec_pc = "decoded" =>
        LET first == FirstFailing(wire, 1)
        IN  /\ decoded.ok <=> first = 0
            /\ first # 0 => decoded.err = CheckError[first]
            /\ first = 4 => decoded.byte = wire[7]

\* A buffer with a wrong magic and a wrong version was decoded, and the
\* magic was reported.
CheckOrderWitness ==
    /\ codec_pc = "decoded"
    /\ Len(wire) >= HEADER_LEN
    /\ CheckFails(wire, 2) /\ CheckFails(wire, 3)
    /\ ~decoded.ok /\ decoded.err = "BadMagic"

\* The edits are byte changes only.
OnlySets == \A i \in 1..Len(edits) : edits[i].op = "set"
\* The offsets the edits changed.
EditedAt == {edits[i].at : i \in {j \in 1..Len(edits) : edits[j].op = "set"}}

\* C17: of a frame built by the encoder, the empty buffer decodes to
\* TooShort, a changed magic byte to BadMagic, a changed version byte to
\* BadVersion, a buffer cut below header + payload length but not below the
\* header to TruncatedPayload, and one changed payload byte to BadChecksum.
CorruptionErrors ==
    (codec_pc = "decoded" /\ Len(edits) = 1) =>
        LET e == edits[1]
        IN  /\ (e.op = "truncate" /\ e.len = 0) =>
                    (wire = <<>> /\ ~decoded.ok /\ decoded.err = "TooShort")
            /\ (e.op = "set" /\ e.at \in 0..3) =>
                    (~decoded.ok /\ decoded.err = "BadMagic")
            /\ (e.op = "set" /\ e.at \in 4..5) =>
                    (~decoded.ok /\ decoded.err = "BadVersion")
            /\ (e.op = "truncate" /\ e.len >= HEADER_LEN) =>
                    (~decoded.ok /\ decoded.err = "TruncatedPayload")
            /\ (e.op = "set" /\ e.at >= HEADER_LEN) =>
                    (~decoded.ok /\ decoded.err = "BadChecksum")

\* One bit of the last payload byte was changed and the decoder reported
\* the checksum.
CorruptionErrorsWitness ==
    /\ codec_pc = "decoded"
    /\ Len(edits) = 1 /\ edits[1].op = "set"
    /\ edits[1].at = Len(wire) - 1 /\ edits[1].at >= HEADER_LEN
    /\ edits[1].to = AlteredTo("bit", encoded.payload[Len(encoded.payload)])
    /\ ~decoded.ok /\ decoded.err = "BadChecksum"

\* The sequence bytes of the encoded frame with the edits applied.
RECURSIVE Patched(_, _)
Patched(bytes, i) ==
    IF i > Len(edits) THEN bytes
    ELSE Patched([bytes EXCEPT ![edits[i].at - 8] = edits[i].to], i + 1)

RoundTrip ==
    (codec_pc \in {"decoded", "read"} /\ edits = <<>> /\ "snapshot" \in DOMAIN encoded) =>
        /\ decoded.ok
        /\ decoded.packet_type = PT_SimData
        /\ decoded.header.sequence = encoded.seq
        /\ decoded.header.payload_len = Len(decoded.payload)
        /\ codec_pc = "read" =>
              /\ snap_out.ok
              /\ DOMAIN snap_out.snapshot = SnapshotFields
              /\ \A f \in SnapshotFields : snap_out.snapshot[f] = encoded.snapshot[f]

\* The snapshot of the tests went through the codec with the largest
\* sequence number and came back with its transponder code and COM1
\* frequency.
RoundTripWitness ==
    /\ codec_pc = "read"
    /\ edits = <<>>
    /\ "snapshot" \in DOMAIN encoded
    /\ encoded.snapshot["com1_active_hz"] = 118025000
    /\ encoded.seq = <<65535, 65535>>
    /\ snap_out.ok
    /\ snap_out.snapshot["transponder_code"] = 7000
    /\ snap_out.snapshot["com1_active_hz"] = 118025000
    /\ Len(decoded.payload) = 464

\* The 32-bit value, as <<high, low>>, of four little-endian bytes.
le32(b) == <<b[3] + 256 * b[4], b[1] + 256 * b[2]>>

\* C21 (wire layout): an encoded frame is the 17-byte header followed by the
\* payload, the fields little-endian at fixed offsets: magic 0xEFB12345 at
\* [0..4], version 1 at [4..6], the packet type at [6] (1 SimData,
\* 2 CommandJson, 3 Ack, 4 Reload), the payload length at [7..9], the
\* sequence at [9..13], the checksum of the payload at [13..17]; and a
\* successful decode reports the fields found at these offsets.
WireLayout ==
    /\ <<PT_SimData, PT_CommandJson, PT_Ack, PT_Reload>> = <<1, 2, 3, 4>>
    /\ (codec_pc = "encoded" /\ edits = <<>>) =>
          /\ Len(wire) = 17 + Len(encoded.payload)
          /\ SubSeq(wire, 1, 4) = <<69, 35, 177, 239>>
          /\ SubSeq(wire, 5, 6) = <<1, 0>>
          /\ wire[7] = encoded.ptype
          /\ "snapshot" \in DOMAIN encoded => wire[7] = 1
          /\ SubSeq(wire, 8, 9) = <<Len(encoded.payload) % 256, Len(encoded.payload) \div 256>>
          /\ le32(SubSeq(wire, 10, 13)) = encoded.seq
          /\ le32(SubSeq(wire, 14, 17)) = crc32(encoded.payload)
          /\ SubSeq(wire, 18, Len(wire)) = encoded.payload
    /\ (codec_pc = "decoded" /\ decoded.ok) =>
          /\ decoded.header.magic = le32(SubSeq(wire, 1, 4))
          /\ decoded.header.version = wire[5] + 256 * wire[6]
          /\ decoded.header.packet_type = wire[7]
          /\ decoded.packet_type = wire[7]
          /\ decoded.header.payload_len = wire[8] + 256 * wire[9]
          /\ decoded.header.sequence = le32(SubSeq(wire, 10, 13))
          /\ decoded.header.checksum = le32(SubSeq(wire, 14, 17))
          /\ decoded.payload = SubSeq(wire, 18, 17 + wire[8] + 256 * wire[9])

\* A Reload frame with a payload and the sequence number 1 was built and
\* decoded as it was.
WireLayoutWitness ==
    /\ codec_pc = "decoded" /\ edits = <<>>
    /\ encoded.ptype = PT_Reload /\ encoded.seq = <<0, 1>>
    /\ encoded.payload = <<1, 2, 3, 4>>
    /\ SubSeq(wire, 7, 13) = <<4, 4, 0, 1, 0, 0, 0>>
    /\ decoded.ok /\ decoded.header.sequence = <<0, 1>>

\* The payload decode_sim_data was called on.
PayloadRead ==
    IF edits # <<>> /\ edits[1].op = "payload"
    THEN SubSeq(encoded.payload, 1, edits[1].len)
    ELSE decoded.payload

\* C22: decode_sim_data fails, returning no snapshot at all, for every
\* payload shorter than the full record of 464 bytes, and only for those.
ShortPayloadFails ==
    codec_pc = "read" =>
        IF Len(PayloadRead) < 464
        THEN snap_out = [ok |-> FALSE, err |-> "TruncatedPayload"]
        ELSE snap_out.ok /\ DOMAIN snap_out.snapshot = SnapshotFields

\* The record was cut one byte short, inside its last field, and
\* decode_sim_data returned the error.
ShortPayloadFailsWitness ==
    /\ codec_pc = "read"
    /\ edits = <<[op |-> "payload", len |-> 463]>>
    /\ Len(PayloadRead) = 463
    /\ ~snap_out.ok

\* The SetDataref datagrams, and the command each carries.
SetDatarefPkts == {SetHeadingPkt, SetAbsentPkt, SetPrecisePkt}
CommandOf(pkt) == ParseCommand(DecodeTable[pkt].payload)

\* A SetDataref step whose one write, when the path resolves, is of v(pkt):
\* the path is looked up; if it resolves, exactly one write of v(pkt) to it
\* follows and the path then reads v(pkt); if not, nothing is written.
SetDatarefStep(pkt, v) ==
    LET path == CommandOf(pkt).path
    IN  IF path \in DOMAIN xplm.d
        THEN /\ xplm'.writes = Append(xplm.writes, <<path, v>>)
             /\ xplm'.calls = xplm.calls \o <<<<"find_dataref", path>>, <<"set", path, v>>>>
             /\ xplm'.d = [xplm.d EXCEPT ![path] = v]
             /\ get_int(xplm'.d, find_dataref(xplm'.d, path)) = v
        ELSE /\ xplm'.writes = xplm.writes
             /\ xplm'.d = xplm.d
             /\ xplm'.calls = Append(xplm.calls, <<"find_dataref", path>>)

\* C23 as stated: the value written and read back is the value of the
\* command.
SetDatarefWritesValue ==
    [][\A pkt \in SetDatarefPkts :
          handle_incoming_packet(pkt, "A1") =>
              SetDatarefStep(pkt, CommandOf(pkt).value)]_vars

\* The values of the commands as f32 has them: 270.0 is 270.0, and
\* 16777217.0 = 2^24 + 1 is 16777216.0.
ValueWritten(pkt) ==
    CASE pkt = SetHeadingPkt -> 270
      [] pkt = SetPrecisePkt -> 16777216
      [] pkt = SetAbsentPkt -> 1

\* C23 (SetDataref), amended: when the path resolves, exactly one write is
\* made to the resolved handle, of the value converted to f32, and a
\* subsequent read of the path returns that f32 value (the value itself
\* when f32 can represent it); when the path does not resolve, nothing is
\* written.
SetDatarefWritesF32 ==
    [][\A pkt \in SetDatarefPkts :
          handle_incoming_packet(pkt, "A1") =>
              SetDatarefStep(pkt, ValueWritten(pkt))]_vars

\* The heading was set to 270.0 with one write, and a command for a path
\* the simulator does not have was handled without any.
SetDatarefWritesF32Witness ==
    /\ "calls" \in DOMAIN xplm
    /\ received = 2
    /\ xplm.writes = <<<<PathOf["ap_heading_bug_deg"], 270>>>>
    /\ xplm.d[PathOf["ap_heading_bug_deg"]] = 270
    /\ xplm.calls = <<<<"find_dataref", PathOf["ap_heading_bug_deg"]>>,
                      <<"set", PathOf["ap_heading_bug_deg"], 270>>,
                      <<"find_dataref", "sim/custom/absent">>>>

\* The radios swap_freq exchanges, with the datagram, the active and the
\* standby field of each.
SwapRadios ==
    {<<SwapCom1Pkt, "com1_active_hz", "com1_standby_hz">>,
     <<SwapNav1Pkt, "nav1_active_hz", "nav1_standby_hz">>}

\* The capability reads both values and then writes each to the other
\* handle; nothing else changes.
Exchanged(ah, sh) ==
    /\ xplm'.d = [xplm.d EXCEPT ![ah] = xplm.d[sh], ![sh] = xplm.d[ah]]
    /\ xplm'.calls = xplm.calls \o
          <<<<"get_int", ah>>, <<"get_int", sh>>,
            <<"set", ah, xplm.d[sh]>>, <<"set", sh, xplm.d[ah]>>>>
    /\ xplm'.writes = xplm.writes \o <<<<ah, xplm.d[sh]>>, <<sh, xplm.d[ah]>>>>
    /\ xplm'.logs = xplm.logs

\* Two swaps of one radio in a row have been made and nothing else.
SwappedTwice(ah, sh) ==
    /\ Len(xplm.writes) = 4 /\ Len(xplm.calls) = 8
    /\ xplm.writes[1][1] = ah /\ xplm.writes[2][1] = sh
    /\ xplm.writes[3][1] = ah /\ xplm.writes[4][1] = sh

\* C24 (SwapFreq, COM1 and NAV1 with both handles cached): the active and
\* the standby value are exchanged, by reads of both followed by two
\* writes; after two swaps in a row the original values are back.
SwapExchanges ==
    /\ [][\A r \in SwapRadios :
            (/\ handles[r[2]] # None /\ handles[r[3]] # None
             /\ handle_incoming_packet(r[1], "A1"))
                => Exchanged(PathOf[r[2]], PathOf[r[3]])]_vars
    /\ [](\A r \in SwapRadios :
            SwappedTwice(PathOf[r[2]], PathOf[r[3]]) =>
                /\ xplm.d[PathOf[r[2]]] = xplm.writes[2][2]
                /\ xplm.d[PathOf[r[3]]] = xplm.writes[1][2]
                /\ xplm.writes[3][2] = xplm.writes[2][2]
                /\ xplm.writes[4][2] = xplm.writes[1][2])

\* COM1 with 118025000 active and 121500000 standby has been swapped once.
SwapExchangesWitness ==
    /\ "calls" \in DOMAIN xplm
    /\ received = 1
    /\ xplm.writes = <<<<PathOf["com1_active_hz"], 121500000>>,
                       <<PathOf["com1_standby_hz"], 118025000>>>>
    /\ xplm.d[PathOf["com1_active_hz"]] = 121500000
    /\ xplm.d[PathOf["com1_standby_hz"]] = 118025000

\* The swap commands of the model, with the radio named and the active and
\* the standby field swap_freq uses for it (None: it uses no such field).
SwapCommands ==
    {<<SwapCom1Pkt, "COM1", "com1_active_hz", "com1_standby_hz">>,
     <<SwapNav1Pkt, "NAV1", "nav1_active_hz", "nav1_standby_hz">>,
     <<SwapCom2Pkt, "COM2", "com2_active_hz", None>>,
     <<SwapAdf1Pkt, "ADF1", None, None>>}

\* The swap c cannot be made: the radio is COM2 or not a known one, or one
\* of its two handles is not cached.
NoSwap(c) ==
    \/ c[2] \notin {"COM1", "NAV1"}
    \/ handles[c[3]] = None
    \/ handles[c[4]] = None

\* C25 (SwapFreq): no capability write is made, and so never one half of a
\* swap, when the radio is COM2 (whatever handles are cached, before or
\* after Reloads), when the radio is not COM1, COM2 or NAV1, or when the
\* active or the standby handle of the radio is unresolved.
SwapSkipped ==
    [][\A c \in SwapCommands :
          (NoSwap(c) /\ handle_incoming_packet(c[1], "A1")) =>
              /\ xplm'.writes = xplm.writes
              /\ xplm'.d = xplm.d
              /\ xplm'.calls = xplm.calls]_vars

\* A Reload has cached the COM2 handle of a session made without handles,
\* a further command was handled, and nothing has been written.
SwapSkippedWitness ==
    /\ "calls" \in DOMAIN xplm
    /\ received = 2
    /\ handles["com2_active_hz"] # None
    /\ Len(xplm.calls) = Len(HandleOrder)
    /\ xplm.writes = <<>>
    /\ xplm.d = InitialDatarefs

\* CommandJson datagrams whose payload is no command: bytes that are not
\* UTF-8, text that is not JSON, a tag Command does not have, and a
\* swap_freq without its radio field.
MalformedCommandPkts == {NotUtf8Pkt, NotJsonPkt, UnknownTagPkt, MissingFieldPkt}

\* C26 (malformed command payload): the payload is ignored.  No call at all
\* is made on the capability (no path resolved, no value read or written,
\* nothing logged), nothing is sent to the peer, and the session is as it
\* was.
MalformedCommandIgnored ==
    [][\A pkt \in MalformedCommandPkts :
          handle_incoming_packet(pkt, "A1") =>
              /\ DecodeTable[pkt].ok /\ DecodeTable[pkt].packet_type = PT_CommandJson
              /\ xplm' = xplm
              /\ sent' = sent
              /\ UNCHANGED <<session, queue>>]_vars

\* Two datagrams have been handled on a session with every handle cached
\* and the capability has not been called once.
MalformedCommandIgnoredWitness ==
    /\ "calls" \in DOMAIN xplm
    /\ received = 2
    /\ handles = find_handles(InitialDatarefs)
    /\ xplm = [d |-> InitialDatarefs, writes |-> <<>>, logs |-> <<>>, calls |-> <<>>]

\* The value the entry point the host called last returned.
Returned == xplm.returned

Taken == \E k \in 0..Len(queue) : queue' = SubSeq(queue, k + 1, Len(queue))

Stopped == ~enabled /\ Returned[1] = "XPluginStop"

\* C29 (shutdown): once the plugin is disabled and stopped, the session is
\* destroyed and no receive loop is left reading the transport.
ShutdownDestroysSession == Stopped => (~plugin /\ running = {})

\* The result of a call is 0 (failure) and nothing of the plugin changed:
\* no session was made, no receive loop started, no tick registered.
Refused(entry) ==
    /\ Returned' = <<entry, 0>>
    /\ UNCHANGED <<plugin, enabled, session, cmd_rx, nthreads, running, queue,
                   sent, pc>>

\* C30 (startup failure): XPluginStart returns 0 and makes no session when
\* the bind fails, when set_nonblocking fails or when a session exists
\* already, and returns 1 with a new session otherwise; XPluginEnable
\* without a session returns 0, starts no receive loop and registers no
\* tick; every call returns to the host, and without a session there is
\* neither a receive loop nor a registered tick.
StartupFailureContained ==
    /\ [][Returned'[1] = "XPluginStart" =>
            \A bind_ok, nonblocking_ok \in BOOLEAN :
                XPluginStart(bind_ok, nonblocking_ok) =>
                    IF bind_ok /\ nonblocking_ok /\ ~plugin
                    THEN Returned' = <<"XPluginStart", 1>> /\ plugin'
                    ELSE Refused("XPluginStart")]_vars
    /\ [][(~plugin /\ Returned'[1] = "XPluginEnable" /\ XPluginEnable) =>
            Refused("XPluginEnable")]_vars
    /\ [](~plugin => (~enabled /\ running = {} /\ nthreads = 0 /\ pc = "idle"))

\* XPluginEnable has just reported failure in a process that has no
\* session, after one of the two ways XPluginStart fails without one.
StartupFailureContainedWitness ==
    /\ "returned" \in DOMAIN xplm
    /\ Returned = <<"XPluginEnable", 0>>
    /\ ~plugin /\ ~enabled /\ nthreads = 0 /\ running = {}

\* The frames send_to accepted.
Delivered == xplm.delivered

\* C31 (fire-and-forget): a sending tick hands exactly one frame to
\* send_to, once; whether send_to succeeds or fails the tick returns its
\* interval, the sequence number is consumed and the session is left the
\* same; no later tick hands a frame with that sequence number to send_to
\* again, so a frame that failed never reaches the network; and the tick
\* sends without any datagram being received in the step.
FireAndForget ==
    /\ [][sent' # sent =>
            /\ pc = "send" /\ pc' = "idle" /\ outcome' = "sent"
            /\ sent' = Append(sent, frame(tablet_addr, sequence))
            /\ sequence' = WrapSucc(sequence)
            /\ Returned' = <<"flight_loop_cb", interval_of(streaming_rate_hz)>>
            /\ Delivered' \in {Delivered, Append(Delivered, frame(tablet_addr, sequence))}
            /\ UNCHANGED <<tablet_addr, last_ack_elapsed, handles, streaming_rate_hz,
                           received, queue>>]_vars
    /\ [][Delivered' # Delivered => sent' # sent]_vars
    /\ [](\A i, j \in DOMAIN sent : sent[i].seq = sent[j].seq => i = j)

\* Two ticks have sent: send_to refused the frame with sequence 0, which
\* never reached the network, and accepted the frame with sequence 1.
FireAndForgetWitness ==
    /\ "delivered" \in DOMAIN xplm
    /\ Len(sent) = 2 /\ sent[1].seq = <<0, 0>> /\ sent[2].seq = <<0, 1>>
    /\ Delivered = <<sent[2]>>
    /\ sequence = <<0, 2>>
    /\ Returned = <<"flight_loop_cb", <<1, DEFAULT_HZ>>>>

TickWithoutServer ==
    pc = "idle" /\ outcome = "nopeer" /\ enabled /\ cmd_rx = 0 /\ nthreads = 0

\* 0, 0.0, false or the zeroed array of a snapshot field.
ZeroField(f) ==
    IF ArrayLen(f) = 0 THEN ZeroOf(TypeOf(f))
    ELSE [k \in 1..ArrayLen(f) |-> ZeroOf(TypeOf(f))]

\* The handles the capture read through.
HandlesRead == {xplm.calls[i][2] : i \in DOMAIN xplm.calls}

\* C33 (capture with unresolved handles): for every snapshot field whose
\* handle is None the capture makes no capability call and the field is 0
\* (0.0, false, a zeroed array); the capture always returns a whole
\* snapshot; and it reads through any handle once at most.
UnresolvedReadsZero ==
    codec_pc = "captured" =>
        /\ DOMAIN encoded.snapshot = SnapshotFields
        /\ \A f \in SnapshotFields :
              handles[HandleOf(f)] = None =>
                  /\ encoded.snapshot[f] = ZeroField(f)
                  /\ HandleOf(f) \notin HandlesRead
        /\ \A i, j \in DOMAIN xplm.calls :
              xplm.calls[i][2] = xplm.calls[j][2] => i = j

\* Every handle but that of the latitude resolved: the latitude is 0.0 and
\* was not read, the longitude was read and is 1.0.
UnresolvedReadsZeroWitness ==
    /\ codec_pc = "captured"
    /\ handles = Cached(AllHandles \ {"latitude"})
    /\ encoded.snapshot["latitude"] = <<0, 0, 0, 0>>
    /\ encoded.snapshot["longitude"] = <<16368, 0, 0, 0>>
    /\ "latitude" \notin HandlesRead /\ "longitude" \in HandlesRead

\* CRC-32 (ISO-HDLC) of byte strings, from the published tables: of the
\* empty string, of 01 02 03 04, of the single byte 00 and the check value
\* of the ASCII digits "123456789".
Crc32Known ==
    <<  <<<<>>, <<0, 0>>>>,
        <<<<1, 2, 3, 4>>, <<46652, 64461>>>>,
        <<<<0>>, <<53762, 61325>>>>,
        <<<<49, 50, 51, 52, 53, 54, 55, 56, 57>>, <<52212, 14630>>>>  >>

\* crc32 has the published values.
Crc32KnownHolds ==
    /\ CRC_POLY = <<60856, 33568>> /\ CRC_INIT = <<65535, 65535>>
    /\ \A i \in DOMAIN Crc32Known : crc32(Crc32Known[i][1]) = Crc32Known[i][2]

\* C34 (checksum): crc32 is CRC-32 with the reflected polynomial
\* 0xEDB88320, seed 0xFFFFFFFF and complemented output, so it has the
\* published values, 0 for no bytes among them; the encoder writes crc32 of
\* exactly the payload into the checksum field, and the decoder accepts a
\* frame only when the field is crc32 of the payload it returns: a
\* zero-length frame only with the field 0.
ChecksumIsCrc32 ==
    /\ Crc32KnownHolds
    /\ (codec_pc = "encoded" /\ edits = <<>>) =>
          \A i \in DOMAIN Crc32Known :
              encoded.payload = Crc32Known[i][1] => read_u32(wire, 13) = Crc32Known[i][2]
    /\ (codec_pc = "decoded" /\ decoded.ok) =>
          /\ decoded.header.checksum = read_u32(wire, 13)
          /\ \A i \in DOMAIN Crc32Known :
                decoded.payload = Crc32Known[i][1] =>
                    decoded.header.checksum = Crc32Known[i][2]
    /\ (codec_pc = "decoded" /\ Len(wire) >= HEADER_LEN /\ ~decoded.ok
            /\ read_u16(wire, 7) = 0 /\ read_u32(wire, 13) = <<0, 0>>) =>
          decoded.err # "BadChecksum"

\* A zero-length Reload frame, its checksum field 0, was decoded as it was
\* encoded and accepted.
ChecksumIsCrc32Witness ==
    /\ codec_pc = "decoded" /\ edits = <<>> /\ decoded.ok
    /\ decoded.packet_type = PT_Reload /\ decoded.payload = <<>>
    /\ Len(wire) = HEADER_LEN
    /\ SubSeq(wire, 14, 17) = <<0, 0, 0, 0>>

\* The same frame with a bit of its checksum field changed was refused.
ChecksumNonzeroRefused ==
    /\ codec_pc = "decoded" /\ ~decoded.ok /\ decoded.err = "BadChecksum"
    /\ Len(wire) = HEADER_LEN /\ read_u16(wire, 7) = 0
    /\ read_u32(wire, 13) # <<0, 0>>

\* C35 (sequence counter): the counter changes only in the step that hands
\* a frame to send_to, by one; paused and peerless ticks, inbound messages
\* and the entry points of the host leave it alone.  So the first frame
\* carries 0 and the frames carry 0, 1, 2, ... without a gap, across
\* pauses too.
SequenceFollowsSends ==
    /\ [][sequence' # sequence =>
            sent' = Append(sent, frame(tablet_addr, sequence))]_vars
    /\ [][sent' # sent => sequence' = WrapSucc(sequence)]_vars
    /\ [](/\ sequence = <<0, Len(sent)>>
          /\ \A i \in DOMAIN sent : sent[i].seq = <<0, i - 1>>)

\* A session that had sent frame 0 and was then paused by the watchdog has
\* drained an Ack and sent again in the same tick: the frame carries 1.
SequenceFollowsSendsWitness ==
    /\ pc = "idle" /\ outcome = "sent" /\ paused_at_start
    /\ Len(sent) = 2 /\ sent[1].seq = <<0, 0>> /\ sent[2].seq = <<0, 1>>
    /\ received = 2 /\ sequence = <<0, 2>>

ReadU16Bounded ==
    \A lo, hi \in 0..(ByteMod - 1) : read_u16(<<lo, hi>>, 0) <= MAX_PAYLOAD_LEN

\* The buffer gets past the packet-type check of decode_packet.
PassesTypeCheck ==
    /\ Len(wire) >= HEADER_LEN
    /\ read_u32(wire, 0) = MAGIC
    /\ read_u16(wire, 4) = PROTOCOL_VERSION
    /\ from_u8(wire[7]) # 0

\* C37 (PayloadTooLarge unreachable): the declared length is two bytes, so
\* it is never above the limit; decode_packet never returns PayloadTooLarge
\* and a buffer that passes the packet-type check ends in success,
\* TruncatedPayload or BadChecksum.
PayloadTooLargeUnreachable ==
    /\ ReadU16Bounded
    /\ codec_pc = "decoded" =>
        /\ ~decoded.ok => decoded.err # "PayloadTooLarge"
        /\ PassesTypeCheck =>
              \/ decoded.ok
              \/ decoded.err \in {"TruncatedPayload", "BadChecksum"}

\* A frame whose length field was changed to 0xFFFF, the largest value it
\* can hold, has been decoded: the outcome is TruncatedPayload.
PayloadTooLargeUnreachableWitness ==
    /\ codec_pc = "decoded" /\ PassesTypeCheck
    /\ read_u16(wire, 7) = MAX_PAYLOAD_LEN
    /\ ~decoded.ok /\ decoded.err = "TruncatedPayload"

\* Each variant decodes, to the packet type of its frame, although its
\* sequence field differs and (but for the command) its payload differs;
\* the receiving thread makes the same message of both.
VariantsDecode ==
    \A p \in VariantPairs :
        /\ p[1] # p[2]
        /\ DecodeTable[p[1]].ok /\ DecodeTable[p[2]].ok
        /\ DecodeTable[p[2]].packet_type = DecodeTable[p[1]].packet_type
        /\ DecodeTable[p[2]].header.sequence # DecodeTable[p[1]].header.sequence
        /\ DecodeTable[p[1]].packet_type # PT_CommandJson =>
              DecodeTable[p[2]].payload # DecodeTable[p[1]].payload
        /\ \A a \in {"A1", "A2"} : classify(p[2], a) = classify(p[1], a)

\* C38 (packet type decides): an Ack or Reload that carries a payload with
\* a matching checksum decodes, and handling it is the very step that
\* handling the empty frame of its type from the same sender is; the same
\* holds for frames that differ in the sequence field only.
PacketTypeDecides ==
    /\ VariantsDecode
    /\ [][\A p \in VariantPairs, a \in {"A1", "A2"} :
            handle_incoming_packet(p[2], a) <=> handle_incoming_packet(p[1], a)]_vars

\* An Ack with a payload from A2 and a Reload with a payload have been
\* handled: A2 is the peer, the watchdog is fresh and every handle was
\* looked up.
PacketTypeDecidesWitness ==
    /\ received = 2 /\ tablet_addr = "A2" /\ last_ack_elapsed = 0
    /\ handles = find_handles(xplm.d) /\ handles # DefaultHandles
    /\ xplm.calls # <<>> /\ xplm.writes = <<>>

\* C39 (trailing bytes): a buffer longer than 17 + payload_len decodes as
\* its first 17 + payload_len bytes do, with the header, type and payload of
\* the frame; decode_sim_data of a payload longer than 464 bytes returns
\* the snapshot of its first 464 bytes.
TrailingBytesTolerated ==
    /\ (/\ codec_pc = "decoded"
        /\ Len(wire) >= HEADER_LEN
        /\ Len(wire) > HEADER_LEN + read_u16(wire, 7))
       => /\ decoded = decode_packet(SubSeq(wire, 1, HEADER_LEN + read_u16(wire, 7)))
          /\ edits # <<>> =>
                /\ decoded.ok
                /\ decoded.payload = encoded.payload
                /\ decoded.header.sequence = encoded.seq
                /\ decoded.header.packet_type = encoded.ptype
    /\ (codec_pc = "read" /\ edits # <<>> /\ edits[1].op = "payload+")
       => /\ Len(encoded.payload \o edits[1].bytes) > 464
          /\ snap_out = decode_sim_data(SubSeq(encoded.payload \o edits[1].bytes, 1, 464))
          /\ snap_out.ok /\ snap_out.snapshot = encoded.snapshot

\* A frame with a payload, followed by three more bytes, has been decoded.
TrailingBytesToleratedWitness ==
    /\ codec_pc = "decoded" /\ edits = <<[op |-> "extend", bytes |-> <<1, 2, 3>>]>>
    /\ Len(wire) = HEADER_LEN + read_u16(wire, 7) + 3
    /\ decoded.ok /\ decoded.payload = <<1, 2, 3, 4>>

\* A serialized snapshot followed by three more bytes has been read back.
TrailingPayloadWitness ==
    /\ codec_pc = "read" /\ edits = <<[op |-> "payload+", bytes |-> <<1, 2, 3>>]>>
    /\ snap_out.ok /\ snap_out.snapshot = distinct_snap

\* A log line other than the one for a dropped packet.
NotDropped(line) == line[1] # "EFB: dropped packet"

\* C40 (direct and queued path): once every datagram the socket returned
\* has gone through the receive loop, the queue and a tick's drain, the
\* session has the peer, the handles, the simulator values, the capability
\* writes and the log lines of a session that took the same datagrams in
\* the same order through handle_incoming_packet, but for the log lines of
\* dropped packets; neither path moves the sequence counter.
PathsAgree ==
    (queue = <<>> /\ batch = <<>>) =>
        /\ tablet_addr = xplm.direct.tablet_addr
        /\ handles = xplm.direct.handles
        /\ xplm.d = xplm.direct.d
        /\ xplm.writes = xplm.direct.writes
        /\ xplm.logs = SelectSeq(xplm.direct.logs, NotDropped)
        /\ sequence = <<0, Len(sent)>>

\* Two datagrams went through the queue and were drained: an Ack from A2
\* and a swap of COM1; the direct session dropped nothing.
PathsAgreeWitness ==
    /\ received = 2 /\ queue = <<>> /\ batch = <<>> /\ pc = "idle"
    /\ tablet_addr = "A2" /\ Len(xplm.writes) = 2
    /\ xplm.direct.writes = xplm.writes

\* A dropped datagram went to both: only the direct session logged it.
PathsDifferInLog ==
    /\ received = 1 /\ queue = <<>> /\ batch = <<>>
    /\ xplm.logs = <<>> /\ Len(xplm.direct.logs) = 1
====
